---- MODULE Spec2Model ----
(***************************************************************************)
(* A model of github-tracker's authentication core: the OAuth state        *)
(* protocol (the Redis-backed OAuthStateManager and the state handling of  *)
(* the /auth/github routes), session tokens, webhook signatures, the       *)
(* session guard with its optional variant and the token refresh, the      *)
(* users collection, the inbound webhook endpoint, and the notifications   *)
(* collection with WebhookService and the notification routes.             *)
(*                                                                          *)
(* Time is in seconds.  Each subsystem has its own specification over the  *)
(* shared variables; a specification leaves the other subsystems' state    *)
(* unchanged.                                                               *)
(***************************************************************************)
EXTENDS Integers, Sequences, FiniteSets, TLC

VARIABLES
    now,              \* the wall clock, datetime.now(timezone.utc), in seconds
    ticks,            \* how many times the clock has advanced
    oauth_states,     \* auth.py: per server process, state -> created_at
    request_count,    \* auth.py: per server process, _request_count
    nextState,        \* how many state tokens secrets.token_urlsafe has drawn
    stateCreatedAt,   \* history: when github_login recorded each state
    stateCreatedOn,   \* history: the process whose github_login recorded it
    stateConsumed,    \* history: a callback's state check has deleted it
    stateFailedAfter, \* history: the consuming callback failed in a later step
    authResp,         \* the response of the /auth/github request just handled
    users,            \* the users collection, in insertion order
    redis,            \* the shared store: state -> when its key expires
    mgrCall,          \* per caller: the verify call in flight
    mgrMade,          \* what create_state returned last
    mgrStored,        \* history: per state, how many creates stored it
    mgrCreatedAt,     \* history: per state, when it was last stored
    mgrConsumed,      \* history: per state, consumed since it was stored
    mgrTrue,          \* history: per state, how many verifies returned True
    mgrVerified,      \* history: per state, how many verifies of the
                      \* stored state returned
    mgrOverlap,       \* history: per state, two verifies were in flight at once
    tokHeld,          \* the session token a client presents
    tokOrigin,        \* history: what made tokHeld, and for which subject
    tokOut,           \* what verify_token just did
    guardOut,         \* what get_current_user just did
    refreshOut,       \* what POST /auth/refresh just did
    tokensOut,        \* what a call of verify_user_tokens just did
    optOut,           \* what get_optional_user just did
    github_id_unique, \* main.py: the users collection has its unique index
                      \* on github_id
    tz_aware,         \* database.py: the store client returns datetimes with
                      \* a time zone
    userCall,         \* per caller: the create_or_update_user call in flight
    upsertOut,        \* what a call on the users collection just did
    sigOut,           \* what verify_github_signature just did
    notifications,    \* the webhook_notifications collection, in insertion order
    whResp,           \* what POST /webhooks/github just did
    notifOut          \* what an operation of a service or a notification
                      \* route just did

mgrVars == <<redis, mgrCall, mgrMade, mgrStored, mgrCreatedAt,
             mgrConsumed, mgrTrue, mgrVerified, mgrOverlap>>

tokenVars == <<tokHeld, tokOrigin, tokOut>>

guardVars == <<guardOut, refreshOut, tokensOut, optOut>>

userVars == <<github_id_unique, tz_aware, userCall, upsertOut>>

sigVars == <<sigOut>>

hookVars == <<notifications, whResp, notifOut>>

authVars == <<oauth_states, request_count, nextState, stateCreatedAt,
              stateCreatedOn, stateConsumed, stateFailedAfter, authResp>>

\* Python's None, where a string is expected, and where a time is expected
None == "None"
NoTime == 0 - 1

(***************************************************************************)
(* Bounds of the model.                                                     *)
(***************************************************************************)
MaxStates == 2
MaxTicks == 3
MaxUsers == 2
NumCallers == 2
MaxCreates == 1
MaxBody == 3
MaxNotifs == 1
\* the notifications the collection holds when its operations run, and the
\* times the clock advances between them
MaxDocs == 2
MaxClock == 1

\* the server processes behind the load balancer
Instances == {"web1", "web2"}
StateTokens == 1..MaxStates

(***************************************************************************)
(* Program constants.                                                       *)
(***************************************************************************)
OAUTH_STATE_EXPIRY_MINUTES == 10
OAUTH_STATE_CLEANUP_INTERVAL == 100
OAUTH_STATE_TTL == 600
jwt_access_token_expire_minutes == 15
jwt_refresh_token_expire_days == 7
\* the parameters of GitHubService's instance methods, self included
get_authorization_url_params == 2
exchange_code_for_token_params == 2

(***************************************************************************)
(* The clock.  It advances by half the state lifetime, so that a state is  *)
(* seen younger than its lifetime, exactly as old, and older.               *)
(***************************************************************************)
StateJumps == {(OAUTH_STATE_EXPIRY_MINUTES * 60) \div 2}

Tick(d) ==
    /\ ticks < MaxTicks
    /\ now' = now + d
    /\ ticks' = ticks + 1

(***************************************************************************)
(* Python's call of a method on the class itself, GitHubService.f(a, ...): *)
(* the arguments bind to the parameters from self on, and the call raises  *)
(* TypeError when a required parameter is left without an argument.        *)
(***************************************************************************)
UnboundCallRaises(nargs, nparams) == nargs # nparams

(***************************************************************************)
(* auth.py: the in-process state map.                                       *)
(***************************************************************************)
EmptyStates == [s \in StateTokens |-> NoTime]

StateExpired(created_at, t) ==
    (t - created_at) > OAUTH_STATE_EXPIRY_MINUTES * 60

cleanup_expired_oauth_states(d, t) ==
    [s \in StateTokens |->
        IF d[s] # NoTime /\ StateExpired(d[s], t) THEN NoTime ELSE d[s]]

\* the state map and the request counter after periodic_cleanup()
periodic_cleanup(d, cnt, t) ==
    IF (cnt + 1) % OAUTH_STATE_CLEANUP_INTERVAL = 0
    THEN [states |-> cleanup_expired_oauth_states(d, t), count |-> 0]
    ELSE [states |-> d, count |-> cnt + 1]

ConsumeStateKeep(d, s) == d

\* del oauth_states[state]
ConsumeState(d, s) == [d EXCEPT ![s] = NoTime]

(***************************************************************************)
(* security.py: session tokens.  A token is its claims and the key that    *)
(* signed it.                                                               *)
(***************************************************************************)
AllClaims == {"sub", "exp", "type"}

NoToken == [jwt |-> FALSE, claims |-> {}, sub |-> 0, exp |-> NoTime,
            type |-> "", key |-> ""]

create_access_token(user_id, t) ==
    [jwt |-> TRUE, claims |-> AllClaims, sub |-> user_id,
     exp |-> t + jwt_access_token_expire_minutes * 60,
     type |-> "access", key |-> "jwt_secret_key"]

create_refresh_token(user_id, t) ==
    [jwt |-> TRUE, claims |-> AllClaims, sub |-> user_id,
     exp |-> t + jwt_refresh_token_expire_days * 86400,
     type |-> "refresh", key |-> "jwt_secret_key"]

\* jose's jwt.decode(token, key, algorithms): it raises JWTError for a string
\* that is no JWT, for a signature the key does not verify, and for an exp
\* claim that is before the current time
jwt_decode(token, key, t) ==
    /\ token.jwt
    /\ token.key = key
    /\ ~("exp" \in token.claims /\ token.exp < t)

\* TokenPayload(**payload): pydantic requires sub, exp and type
TokenPayload(payload) == AllClaims \subseteq payload.claims

NoVerdict == [outcome |-> "none", status |-> 0, detail |-> "", sub |-> 0]

\* verify_token: it returns the payload, raises HTTPException, or lets
\* pydantic's ValidationError through
verify_token(token, token_type, t) ==
    IF ~jwt_decode(token, "jwt_secret_key", t)
    THEN [NoVerdict EXCEPT !.outcome = "HTTPException", !.status = 401,
                           !.detail = "Could not validate credentials"]
    ELSE IF ~TokenPayload(token)
    THEN [NoVerdict EXCEPT !.outcome = "ValidationError"]
    ELSE IF token.type # token_type
    THEN [NoVerdict EXCEPT !.outcome = "HTTPException", !.status = 401,
                           !.detail = IF token_type = "access"
                                      THEN "Invalid token type. Expected access"
                                      ELSE "Invalid token type. Expected refresh"]
    ELSE [NoVerdict EXCEPT !.outcome = "returned", !.sub = token.sub]

(***************************************************************************)
(* services/user.py: the users collection.  A record's internal id (_id)   *)
(* is its position in the collection; the core never deletes a record.     *)
(***************************************************************************)
GithubIds == 1..MaxUsers
Logins == {"alice", "bob"}

\* find_one: the first of the documents that match, 0 for None
find_one(matches) ==
    IF matches # {}
    THEN CHOOSE k \in matches : \A j \in matches : k <= j
    ELSE 0

\* github_user: the profile the provider returned
Profile(hasId, id, login, name) ==
    [has_id |-> hasId, id |-> id, login |-> login, name |-> name]

\* a variant that inserts without looking for the record
users_insert_always(us, github_user, github_token, token_expires_at, t, dbOk) ==
    IF ~github_user.has_id \/ github_user.login = None
    THEN [raised |-> "ValueError", user |-> 0, users |-> us]
    ELSE IF ~dbOk
    THEN [raised |-> None, user |-> 0, users |-> us]
    ELSE [raised |-> None, user |-> Len(us) + 1,
          users |-> Append(us,
                        [github_id |-> github_user.id,
                         username |-> github_user.login,
                         name |-> github_user.name,
                         github_access_token |-> github_token,
                         github_token_expires_at |-> token_expires_at,
                         webhook_configured |-> FALSE,
                         created_at |-> t,
                         updated_at |-> t])]

\* the collection and the result of create_or_update_user; user is the
\* returned record's _id, 0 for None
create_or_update_user(us, github_user, github_token, token_expires_at, t, dbOk) ==
    IF ~github_user.has_id \/ github_user.login = None
    THEN [raised |-> "ValueError", user |-> 0, users |-> us]
    ELSE IF ~dbOk
    THEN [raised |-> None, user |-> 0, users |-> us]
    ELSE
    LET existing == find_one({k \in 1..Len(us) :
                                  us[k].github_id = github_user.id})
    IN  IF existing # 0
        THEN [raised |-> None, user |-> existing,
              users |-> [us EXCEPT ![existing] =
                            [@ EXCEPT !.username = github_user.login,
                                      !.name = github_user.name,
                                      !.github_access_token = github_token,
                                      !.github_token_expires_at = token_expires_at,
                                      !.updated_at = t]]]
        ELSE [raised |-> None, user |-> Len(us) + 1,
              users |-> Append(us,
                            [github_id |-> github_user.id,
                             username |-> github_user.login,
                             name |-> github_user.name,
                             github_access_token |-> github_token,
                             github_token_expires_at |-> token_expires_at,
                             webhook_configured |-> FALSE,
                             created_at |-> t,
                             updated_at |-> t])]

\* ObjectId.is_valid(user_id): the well-formed ids are the positive integers;
\* 0 stands for the empty string and a negative number for any other
\* ill-formed id
ObjectIdValid(user_id) == user_id >= 1

\* get_user_by_id without the handler of PyMongoError
get_user_by_id_unhandled(us, user_id, dbOk) ==
    IF ~ObjectIdValid(user_id)
    THEN [raised |-> "ValueError", user |-> 0]
    ELSE IF ~dbOk
    THEN [raised |-> "PyMongoError", user |-> 0]
    ELSE [raised |-> None,
          user |-> IF user_id \in 1..Len(us) THEN user_id ELSE 0]

\* get_user_by_id: the record's _id, 0 for None
get_user_by_id(us, user_id, dbOk) ==
    IF ~ObjectIdValid(user_id)
    THEN [raised |-> "ValueError", user |-> 0]
    ELSE IF ~dbOk
    THEN [raised |-> None, user |-> 0]
    ELSE [raised |-> None,
          user |-> IF user_id \in 1..Len(us) THEN user_id ELSE 0]

\* update_webhook_status: the collection and the result.  The $set writes
\* webhook_configured and updated_at, and modified_count counts the records
\* the $set changed.
update_webhook_status(us, user_id, configured, t, dbOk) ==
    LET updated == [us[user_id] EXCEPT !.webhook_configured = configured,
                                       !.updated_at = t]
    IN  IF ~ObjectIdValid(user_id)
        THEN [raised |-> "ValueError", result |-> FALSE, users |-> us]
        ELSE IF ~dbOk \/ user_id \notin 1..Len(us)
        THEN [raised |-> None, result |-> FALSE, users |-> us]
        ELSE [raised |-> None, result |-> updated # us[user_id],
              users |-> [us EXCEPT ![user_id] = updated]]

(***************************************************************************)
(* create_or_update_user as the store sees it: a find_one, and later an    *)
(* update_one or an insert_one.  The store runs each command atomically;   *)
(* the caller's coroutine is suspended in between, so calls interleave.    *)
(* insert_one raises DuplicateKeyError, a PyMongoError, when the unique    *)
(* index on github_id is in place and a record has the document's          *)
(* github_id.                                                               *)
(***************************************************************************)
find_one_github_id(us, github_id) ==
    find_one({k \in 1..Len(us) : us[k].github_id = github_id})

DuplicateKeyError(us, unique, github_id) ==
    unique /\ find_one_github_id(us, github_id) # 0

\* update_one({"_id": existing["_id"]}, {"$set": user_data})
update_one(us, existing, call, t) ==
    [us EXCEPT ![existing] =
        [@ EXCEPT !.username = call.github_user.login,
                  !.name = call.github_user.name,
                  !.github_access_token = call.github_token,
                  !.github_token_expires_at = call.token_expires_at,
                  !.updated_at = t]]

\* insert_one(user_data)
insert_one(us, call, t) ==
    Append(us, [github_id |-> call.github_user.id,
                username |-> call.github_user.login,
                name |-> call.github_user.name,
                github_access_token |-> call.github_token,
                github_token_expires_at |-> call.token_expires_at,
                webhook_configured |-> FALSE,
                created_at |-> t,
                updated_at |-> t])

\* services/github.py: what GET /user answers to verify_token_validity
UpstreamAnswers == {"valid", "invalid", "timeout", "error"}

\* a variant that takes every answer but a refusal for validity
verify_token_validity_lenient(up) == up # "invalid"

verify_token_validity(up) == up = "valid"

\* datetime.now(timezone.utc) > expires_at, where expires_at is the datetime
\* the store client returned: Python raises TypeError when the one carries a
\* time zone and the other does not
ExpiryComparison(t, expires_at) ==
    IF ~tz_aware THEN "TypeError"
    ELSE IF t > expires_at THEN "passed"
    ELSE "not passed"

\* a variant that asks the upstream API whatever the stored expiry
verify_user_tokens_unchecked(us, user_id, t, dbOk, up) ==
    LET u == get_user_by_id(us, user_id, dbOk).user
        no == [raised |-> None, result |-> FALSE, upstream |-> FALSE]
    IN  IF ~ObjectIdValid(user_id)
        THEN [no EXCEPT !.raised = "ValueError"]
        ELSE IF u = 0
        THEN no
        ELSE [no EXCEPT !.result = verify_token_validity(up),
                        !.upstream = TRUE]

\* verify_user_tokens: the result, and whether the upstream call was made;
\* the TypeError of the comparison is caught and gives False
verify_user_tokens(us, user_id, t, dbOk, up) ==
    LET u == get_user_by_id(us, user_id, dbOk).user
        no == [raised |-> None, result |-> FALSE, upstream |-> FALSE]
    IN  IF ~ObjectIdValid(user_id)
        THEN [no EXCEPT !.raised = "ValueError"]
        ELSE IF u = 0
        THEN no
        ELSE IF /\ us[u].github_token_expires_at # NoTime
                /\ ExpiryComparison(t, us[u].github_token_expires_at)
                       # "not passed"
        THEN no
        ELSE [no EXCEPT !.result = verify_token_validity(up),
                        !.upstream = TRUE]

(***************************************************************************)
(* The session guard get_current_user, as routes/dependencies.py and as    *)
(* core/dependencies.py define it.  A result lists the steps that ran, the *)
(* response, and request.state.user_id.                                     *)
(***************************************************************************)
GuardSteps == <<"verify_token", "get_user_by_id", "verify_user_tokens">>

NoGuardResult ==
    [status |-> 0, detail |-> "", user |-> 0, steps |-> <<>>,
     state_set |-> FALSE, state_user_id |-> 0, upstream |-> FALSE]

\* routes/dependencies.py: every failure leaves as 401
routes_get_current_user(token, us, t, db1, db2, up) ==
    LET v == verify_token(token, "access", t)
        u == get_user_by_id(us, v.sub, db1)
        tv == verify_user_tokens(us, u.user, t, db2, up)
        reject(detail, n) ==
            [NoGuardResult EXCEPT !.status = 401, !.detail = detail,
                                  !.steps = SubSeq(GuardSteps, 1, n)]
    IN  IF v.outcome = "HTTPException"
        THEN reject(v.detail, 1)
        ELSE IF v.outcome = "ValidationError"
        THEN reject("Could not validate credentials", 1)
        ELSE IF v.sub = 0
        THEN reject("Invalid authentication credentials", 1)
        ELSE IF u.raised # None
        THEN reject("Could not validate credentials", 2)
        ELSE IF u.user = 0
        THEN reject("User not found", 2)
        ELSE IF ~tv.result
        THEN [reject("GitHub session expired. Please re-authenticate.", 3)
                 EXCEPT !.upstream = tv.upstream]
        ELSE [NoGuardResult EXCEPT !.status = 200, !.user = u.user,
                                   !.steps = GuardSteps,
                                   !.state_set = TRUE,
                                   !.state_user_id = u.user,
                                   !.upstream = tv.upstream]

\* core/dependencies.py: no handler around the steps, so what is no
\* HTTPException leaves as 500; request.state.user_id is written right after
\* verify_token
core_get_current_user(token, us, t, db1, db2, up) ==
    LET v == verify_token(token, "access", t)
        u == get_user_by_id(us, v.sub, db1)
        tv == verify_user_tokens(us, u.user, t, db2, up)
        seen == [NoGuardResult EXCEPT !.state_set = TRUE,
                                      !.state_user_id = v.sub]
    IN  IF v.outcome = "HTTPException"
        THEN [NoGuardResult EXCEPT !.status = 401, !.detail = v.detail,
                                   !.steps = SubSeq(GuardSteps, 1, 1)]
        ELSE IF v.outcome = "ValidationError"
        THEN [NoGuardResult EXCEPT !.status = 500,
                                   !.detail = "Internal Server Error",
                                   !.steps = SubSeq(GuardSteps, 1, 1)]
        ELSE IF u.raised # None
        THEN [seen EXCEPT !.status = 500,
                          !.detail = "Internal Server Error",
                          !.steps = SubSeq(GuardSteps, 1, 2)]
        ELSE IF u.user = 0
        THEN [seen EXCEPT !.status = 401, !.detail = "User not found",
                          !.steps = SubSeq(GuardSteps, 1, 2)]
        ELSE IF ~tv.result
        THEN [seen EXCEPT !.status = 401,
                          !.detail = "Session expired. Please login again",
                          !.steps = GuardSteps,
                          !.upstream = tv.upstream]
        ELSE [seen EXCEPT !.status = 200, !.user = u.user,
                          !.steps = GuardSteps,
                          !.upstream = tv.upstream]

(***************************************************************************)
(* routes/auth.py: POST /auth/refresh.  The response, the access token it  *)
(* carries, and whether the upstream API was called.                        *)
(***************************************************************************)
NoRefreshResult ==
    [status |-> 0, detail |-> "", access_token |-> NoToken, token_type |-> "",
     upstream |-> FALSE]

refresh_access_token(token, us, t, dbOk, up) ==
    LET v == verify_token(token, "refresh", t)
        tv == verify_user_tokens(us, v.sub, t, dbOk, up)
        failed == [NoRefreshResult EXCEPT !.status = 500,
                                          !.detail = "Failed to refresh token"]
    IN  IF v.outcome = "HTTPException"
        THEN [NoRefreshResult EXCEPT !.status = 401, !.detail = v.detail]
        ELSE IF v.outcome = "ValidationError"
        THEN failed
        ELSE IF tv.raised # None
        THEN failed
        ELSE IF ~tv.result
        THEN [NoRefreshResult EXCEPT
                 !.status = 401,
                 !.detail = "Session expired. Please login again.",
                 !.upstream = tv.upstream]
        ELSE [NoRefreshResult EXCEPT
                 !.status = 200,
                 !.access_token = create_access_token(v.sub, t),
                 !.token_type = "bearer",
                 !.upstream = tv.upstream]

(***************************************************************************)
(* routes/dependencies.py: get_optional_user.  Its credentials parameter   *)
(* is Depends(security) with security = HTTPBearer(), whose auto_error is  *)
(* on: for a request without a bearer token the scheme raises              *)
(* HTTPException "Not authenticated" before the function body runs, with   *)
(* status 403 or 401 according to the installed FastAPI.                    *)
(***************************************************************************)
HTTPBearerStatuses == {401, 403}

NoOptResult ==
    [raised |-> FALSE, status |-> 0, detail |-> "", user |-> 0,
     state_set |-> FALSE]

\* the function body, for credentials the scheme let through
get_optional_user(token, us, t, db1, db2, up) ==
    LET r == routes_get_current_user(token, us, t, db1, db2, up)
    IN  IF r.status = 200
        THEN [NoOptResult EXCEPT !.user = r.user, !.state_set = r.state_set]
        ELSE NoOptResult

\* the dependency as a route sees it; bearer says whether the request
\* carries a bearer token, and scheme_status is what HTTPBearer raises with
optional_user_dependency(bearer, scheme_status, token, us, t, db1, db2, up) ==
    IF ~bearer
    THEN [NoOptResult EXCEPT !.raised = TRUE, !.status = scheme_status,
                             !.detail = "Not authenticated"]
    ELSE get_optional_user(token, us, t, db1, db2, up)

(***************************************************************************)
(* middleware/rate_limiting.py: the key a request is counted under.        *)
(***************************************************************************)
get_user_identifier(state_set) == IF state_set THEN "user" ELSE "ip"

(***************************************************************************)
(* security.py: verify_github_signature.  A body is a sequence of bytes, a *)
(* header is absent (None) or a string, and a string is a sequence of       *)
(* characters.  HMAC-SHA256 is taken to be free of collisions: the hex      *)
(* digest spells out the key and the message.                               *)
(***************************************************************************)
BodyBytes == 0..2
Bodies == UNION {[1..n -> BodyBytes] : n \in 0..MaxBody}

github_webhook_secret == "a"

HexOf(byte) == CASE byte = 0 -> "0" [] byte = 1 -> "1" [] OTHER -> "2"

hexdigest(secret, msg) ==
    <<secret>> \o [i \in 1..Len(msg) |-> HexOf(msg[i])]

NoHeader == [present |-> FALSE, text |-> <<>>]
Header(text) == [present |-> TRUE, text |-> text]

sha256 == <<"s", "h", "a", "2", "5", "6">>
sha1 == <<"s", "h", "a", "1">>

\* str.split("=", 1)
SplitFirst(text) ==
    IF \E k \in 1..Len(text) : text[k] = "="
    THEN LET k == CHOOSE k \in 1..Len(text) :
                     text[k] = "=" /\ \A j \in 1..(k - 1) : text[j] # "="
         IN  <<SubSeq(text, 1, k - 1), SubSeq(text, k + 1, Len(text))>>
    ELSE <<text>>

IsAscii(text) == \A k \in 1..Len(text) : text[k] # "NonAscii"

\* a comparison that stops where the shorter string ends
compare_prefix(a, b) ==
    IF ~IsAscii(b)
    THEN [raised |-> TRUE, equal |-> FALSE]
    ELSE [raised |-> FALSE, equal |-> Len(b) <= Len(a) /\ SubSeq(a, 1, Len(b)) = b]

\* hmac.compare_digest on two str: TypeError unless both are ASCII
compare_digest(a, b) ==
    IF ~IsAscii(b)
    THEN [raised |-> TRUE, equal |-> FALSE]
    ELSE [raised |-> FALSE, equal |-> a = b]

\* the body of the try block; fault says that reading the settings raises
signature_try(payload_body, text, fault) ==
    LET parts == SplitFirst(text)
        answer(raised, result) == [raised |-> raised, result |-> result]
    IN  IF Len(parts) # 2
        THEN answer(FALSE, FALSE)
        ELSE IF parts[1] # sha256
        THEN answer(FALSE, FALSE)
        ELSE IF fault
        THEN answer(TRUE, FALSE)
        ELSE LET cmp == compare_digest(
                            hexdigest(github_webhook_secret, payload_body),
                            parts[2])
             IN  answer(cmp.raised, cmp.equal)

\* a check that lets every delivery through
verify_unsigned(payload_body, signature_header, fault) ==
    [raised |-> FALSE, result |-> TRUE]

\* verify_github_signature: what it returns, and whether it raises
verify_github_signature(payload_body, signature_header, fault) ==
    IF ~signature_header.present \/ signature_header.text = <<>>
    THEN [raised |-> FALSE, result |-> FALSE]
    ELSE LET r == signature_try(payload_body, signature_header.text, fault)
         IN  IF r.raised
             THEN [raised |-> FALSE, result |-> FALSE]
             ELSE [raised |-> FALSE, result |-> r.result]

\* the header GitHub sends for a body
SignatureOf(secret, body) == sha256 \o <<"=">> \o hexdigest(secret, body)

\* the headers a sender may put on a body: none, empty, the right one, the
\* right one for another body or under another secret, one cut short or
\* extended, one without "=" or with two, other algorithms, no digest, and
\* a digest that is not ASCII
HeaderInputs(body) ==
    LET good == SignatureOf(github_webhook_secret, body)
        digest == hexdigest(github_webhook_secret, body)
    IN  {NoHeader, Header(<<>>), Header(good)}
        \cup {Header(SignatureOf(github_webhook_secret, b)) : b \in Bodies}
        \cup {Header(SignatureOf("b", body)),
              Header(SubSeq(good, 1, Len(good) - 1)),
              Header(good \o <<"0">>),
              Header(sha256 \o digest),
              Header(sha256 \o <<"=", "=">> \o digest),
              Header(sha1 \o <<"=">> \o digest),
              Header(<<"=">> \o digest),
              Header(sha256 \o <<"=">>),
              Header(sha256 \o <<"=">> \o digest \o <<"NonAscii">>)}

(***************************************************************************)
(* services/user.py and services/webhook.py, as the inbound webhook uses   *)
(* them.                                                                    *)
(***************************************************************************)
\* get_user_by_username: the first record with that username, 0 for None
get_user_by_username(us, username, dbOk) ==
    IF username = None \/ ~dbOk
    THEN 0
    ELSE find_one({k \in 1..Len(us) : us[k].username = username})

\* get_user_by_github_id: the first record with that github_id, 0 for None
get_user_by_github_id(us, github_id, dbOk) ==
    IF ~dbOk THEN 0 ELSE find_one_github_id(us, github_id)

\* create_notification: the collection afterwards, and what the call raises.
\* A document's _id is its position in the collection; the document has no
\* processed_at until it is marked, which NoTime stands for.
create_notification(ns, user_id, repository, event_type, action, payload, t, dbOk) ==
    IF repository = None \/ event_type = ""
    THEN [raised |-> "ValueError", stored |-> FALSE, notifications |-> ns]
    ELSE IF ~dbOk
    THEN [raised |-> None, stored |-> FALSE, notifications |-> ns]
    ELSE [raised |-> None, stored |-> TRUE,
          notifications |-> Append(ns,
              [user_id |-> user_id, repository |-> repository,
               event_type |-> event_type, action |-> action,
               payload |-> payload, processed |-> FALSE,
               processed_at |-> NoTime, created_at |-> t])]

(***************************************************************************)
(* routes/webhooks.py: POST /webhooks/github.  A delivery's body is three  *)
(* bytes: what the text is (0 not UTF-8, 1 a JSON object, 2 a JSON array), *)
(* the repository owner's login, and the repository's full name; any other *)
(* length is text that json.loads rejects.                                  *)
(***************************************************************************)
OwnerOf(body) ==
    CASE body[2] = 1 -> "alice" [] body[2] = 2 -> "bob" [] OTHER -> None

FullNameOf(body) ==
    CASE body[3] = 1 -> "owner/repo1" [] body[3] = 2 -> "owner/repo2"
      [] OTHER -> None

\* json.loads(body.decode()): what it raises, None when it returns
json_loads(body) ==
    IF Len(body) # 3 THEN "JSONDecodeError"
    ELSE IF body[1] = 0 THEN "UnicodeDecodeError"
    ELSE None

WebhookSteps == <<"verify_github_signature", "json.loads",
                  "get_user_by_username", "create_notification">>

Events == {"push", ""}

\* the response, the steps that ran and the collection afterwards
github_webhook(body, header, event, fault, us, ns, t, dbFind, dbInsert) ==
    LET answer(status, message, n) ==
            [status |-> status, message |-> message,
             steps |-> SubSeq(WebhookSteps, 1, n),
             user |-> 0, notifications |-> ns]
        user == get_user_by_username(us, OwnerOf(body), dbFind)
        made == create_notification(ns, user, FullNameOf(body), event, None,
                                    body, t, dbInsert)
    IN  IF ~verify_github_signature(body, header, fault).result
        THEN answer(401, "Invalid webhook signature", 1)
        ELSE IF json_loads(body) = "JSONDecodeError"
        THEN answer(400, "Invalid JSON payload", 2)
        ELSE IF json_loads(body) # None \/ body[1] = 2
        THEN answer(500, "Failed to process webhook", 2)
        ELSE IF OwnerOf(body) = None
        THEN answer(200, "Repository owner not found, webhook ignored", 2)
        ELSE IF user = 0
        THEN answer(200, "User not found, webhook ignored", 3)
        ELSE IF made.raised # None
        THEN answer(500, "Failed to process webhook", 4)
        ELSE [answer(200, "Webhook received successfully", 4)
                 EXCEPT !.user = user, !.notifications = made.notifications]

(***************************************************************************)
(* services/webhook.py: the other operations of WebhookService.  An        *)
(* Optional[bool] argument is a sequence, empty for None.  The store keeps *)
(* a datetime to the millisecond and the model's clock is coarser, so two  *)
(* calls at the same time write the same processed_at.                     *)
(***************************************************************************)
\* what delete_one leaves at a document's _id: the store gives the _id to no
\* other document
NoDocument ==
    [user_id |-> 0, repository |-> None, event_type |-> "", action |-> None,
     payload |-> <<>>, processed |-> FALSE, processed_at |-> NoTime,
     created_at |-> NoTime]

Live(ns) == {k \in 1..Len(ns) : ns[k] # NoDocument}

\* find(query): the _ids the query built from user_id and processed matches
Matching(ns, user_id, processed) ==
    {k \in Live(ns) :
        /\ ns[k].user_id = user_id
        /\ processed = <<>> \/ ns[k].processed = processed[1]}

\* sort("created_at", -1): the orders the store may return the documents in;
\* it is free in the order of documents created at the same time
SortedNewestFirst(ns, ids) ==
    {s \in [1..Cardinality(ids) -> ids] :
        /\ \A i, j \in 1..Cardinality(ids) : i # j => s[i] # s[j]
        /\ \A i, j \in 1..Cardinality(ids) :
               i < j => ns[s[i]].created_at >= ns[s[j]].created_at}

\* skip(skip).limit(limit) over one order
Page(s, skip, limit) ==
    SubSeq(s, skip + 1, IF Len(s) < skip + limit THEN Len(s) ELSE skip + limit)

\* get_user_notifications without the bounds on limit and skip: the store
\* reads limit(0) as no limit and rejects a negative skip
get_user_notifications_unbounded(ns, user_id, processed, limit, skip, dbOk) ==
    IF ~ObjectIdValid(user_id)
    THEN [raised |-> "ValueError", results |-> {<<>>}]
    ELSE IF ~dbOk \/ skip < 0
    THEN [raised |-> None, results |-> {<<>>}]
    ELSE [raised |-> None,
          results |-> {Page(s, skip, IF limit < 1 THEN Len(s) ELSE limit) :
                          s \in SortedNewestFirst(ns,
                                    Matching(ns, user_id, processed))}]

\* get_user_notifications: the lists of _ids the call may return
get_user_notifications(ns, user_id, processed, limit, skip, dbOk) ==
    LET lim == IF limit < 1 THEN 50 ELSE IF limit > 100 THEN 100 ELSE limit
        skp == IF skip < 0 THEN 0 ELSE skip
    IN  IF ~ObjectIdValid(user_id)
        THEN [raised |-> "ValueError", results |-> {<<>>}]
        ELSE IF ~dbOk
        THEN [raised |-> None, results |-> {<<>>}]
        ELSE [raised |-> None,
              results |-> {Page(s, skp, lim) :
                              s \in SortedNewestFirst(ns,
                                        Matching(ns, user_id, processed))}]

\* get_notification_by_id: the document's _id, 0 for None
get_notification_by_id(ns, notification_id, dbOk) ==
    IF ~ObjectIdValid(notification_id)
    THEN [raised |-> "ValueError", notification |-> 0]
    ELSE IF ~dbOk \/ notification_id \notin Live(ns)
    THEN [raised |-> None, notification |-> 0]
    ELSE [raised |-> None, notification |-> notification_id]

\* mark_as_processed: update_one by _id alone; modified_count counts the
\* documents the $set changed
mark_as_processed(ns, notification_id, t, dbOk) ==
    LET marked == [ns[notification_id] EXCEPT !.processed = TRUE,
                                              !.processed_at = t]
    IN  IF ~ObjectIdValid(notification_id)
        THEN [raised |-> "ValueError", result |-> FALSE, notifications |-> ns]
        ELSE IF ~dbOk \/ notification_id \notin Live(ns)
        THEN [raised |-> None, result |-> FALSE, notifications |-> ns]
        ELSE [raised |-> None, result |-> marked # ns[notification_id],
              notifications |-> [ns EXCEPT ![notification_id] = marked]]

\* mark_all_as_processed with a filter on the owner alone
mark_all_as_processed_any(ns, user_id, t, dbOk) ==
    LET matched == Matching(ns, user_id, <<>>)
    IN  IF ~ObjectIdValid(user_id)
        THEN [raised |-> "ValueError", count |-> 0, notifications |-> ns]
        ELSE IF ~dbOk
        THEN [raised |-> None, count |-> 0, notifications |-> ns]
        ELSE [raised |-> None,
              count |-> Cardinality({k \in matched :
                            ~ns[k].processed \/ ns[k].processed_at # t}),
              notifications |->
                  [k \in 1..Len(ns) |->
                      IF k \in matched
                      THEN [ns[k] EXCEPT !.processed = TRUE,
                                         !.processed_at = t]
                      ELSE ns[k]]]

\* mark_all_as_processed: update_many over the owner's unprocessed documents
mark_all_as_processed(ns, user_id, t, dbOk) ==
    LET matched == Matching(ns, user_id, <<FALSE>>)
    IN  IF ~ObjectIdValid(user_id)
        THEN [raised |-> "ValueError", count |-> 0, notifications |-> ns]
        ELSE IF ~dbOk
        THEN [raised |-> None, count |-> 0, notifications |-> ns]
        ELSE [raised |-> None, count |-> Cardinality(matched),
              notifications |->
                  [k \in 1..Len(ns) |->
                      IF k \in matched
                      THEN [ns[k] EXCEPT !.processed = TRUE,
                                         !.processed_at = t]
                      ELSE ns[k]]]

\* count_user_notifications
count_user_notifications(ns, user_id, processed, dbOk) ==
    IF ~ObjectIdValid(user_id)
    THEN [raised |-> "ValueError", count |-> 0]
    ELSE IF ~dbOk
    THEN [raised |-> None, count |-> 0]
    ELSE [raised |-> None,
          count |-> Cardinality(Matching(ns, user_id, processed))]

\* delete_notification: delete_one by _id
delete_notification(ns, notification_id, dbOk) ==
    IF ~ObjectIdValid(notification_id)
    THEN [raised |-> "ValueError", result |-> FALSE, notifications |-> ns]
    ELSE IF ~dbOk \/ notification_id \notin Live(ns)
    THEN [raised |-> None, result |-> FALSE, notifications |-> ns]
    ELSE [raised |-> None, result |-> TRUE,
          notifications |-> [ns EXCEPT ![notification_id] = NoDocument]]

(***************************************************************************)
(* routes/webhooks.py: the notification routes, past the guard, which      *)
(* hands them current_user.                                                 *)
(***************************************************************************)
\* GET /webhooks/notifications: the responses the route may give
get_notifications(ns, current_user, processed, limit, dbOk) ==
    LET r == get_user_notifications(ns, current_user, processed, limit, 0,
                                    dbOk)
    IN  IF r.raised # None
        THEN {[status |-> 500, detail |-> "Failed to fetch notifications",
               list |-> <<>>]}
        ELSE {[status |-> 200, detail |-> "", list |-> l] : l \in r.results}

\* POST /webhooks/notifications/{notification_id}/mark-processed
mark_notification_processed(ns, notification_id, current_user, t, dbOk) ==
    LET r == mark_as_processed(ns, notification_id, t, dbOk)
    IN  IF r.raised = "ValueError"
        THEN [status |-> 404, detail |-> "Notification not found",
              notifications |-> r.notifications]
        ELSE [status |-> 200, detail |-> "Notification marked as processed",
              notifications |-> r.notifications]

\* POST /webhooks/notifications/mark-all-processed
mark_all_notifications_processed(ns, current_user, t, dbOk) ==
    LET r == mark_all_as_processed(ns, current_user, t, dbOk)
    IN  IF r.raised # None
        THEN [status |-> 500,
              detail |-> "Failed to mark notifications as processed",
              notifications |-> r.notifications]
        ELSE [status |-> 200,
              detail |-> "All notifications marked as processed",
              notifications |-> r.notifications]

(***************************************************************************)
(* The /auth/github routes.                                                 *)
(***************************************************************************)
\* A response, with what the history says of the state the request carried:
\* whether a login created it, on the handling process or another, how old it
\* is, and whether a callback consumed it before (and then failed).
NoAuthResp ==
    [kind |-> "none", status |-> 0, detail |-> "", handed |-> FALSE,
     passed |-> FALSE, created |-> FALSE, sameProcess |-> FALSE, age |-> 0,
     priorConsumed |-> FALSE, priorFailed |-> FALSE, storeUp |-> TRUE,
     upstreamOk |-> FALSE, issued |-> FALSE, access_token |-> NoToken,
     refresh_token |-> NoToken, token_type |-> "", expires_in |-> 0,
     usersBefore |-> 0, user |-> 0, exchange |-> "", profile |-> ""]

(***************************************************************************)
(* GET /auth/github/login on process i.                                     *)
(***************************************************************************)
github_login(i, storeUp) ==
    /\ nextState < MaxStates
    /\ LET pc == periodic_cleanup(oauth_states[i], request_count[i], now)
           state == nextState + 1
           stored == [pc.states EXCEPT ![state] = now]
           raised == UnboundCallRaises(1, get_authorization_url_params)
       IN  /\ nextState' = state
           /\ request_count' = [request_count EXCEPT ![i] = pc.count]
           /\ oauth_states' = [oauth_states EXCEPT ![i] = stored]
           /\ stateCreatedAt' = [stateCreatedAt EXCEPT ![state] = now]
           /\ stateCreatedOn' = [stateCreatedOn EXCEPT ![state] = i]
           /\ authResp' =
                [NoAuthResp EXCEPT
                    !.kind = "login", !.created = TRUE, !.sameProcess = TRUE,
                    !.storeUp = storeUp,
                    !.status = IF raised THEN 500 ELSE 200,
                    !.detail = IF raised
                               THEN "Failed to generate authorization URL"
                               ELSE "",
                    !.handed = ~raised]
    /\ UNCHANGED <<stateConsumed, stateFailedAfter, users>>


(***************************************************************************)
(* services/github.py, as the callback sees it.  The provider's answer to  *)
(* the code exchange and to the profile fetch is an input of the request.  *)
(***************************************************************************)
ExchangeAnswers ==
    {"token", "token_expires_in", "no_access_token", "error", "timeout"}
ProfileAnswers == {"profile", "error", "timeout"}
upstream_expires_in == 8 * 3600

\* what exchange_code_for_token raises, None when it returns token_data
exchange_code_for_token(ex) ==
    CASE ex = "error" -> "GitHubAuthenticationError"
      [] ex = "timeout" -> "HTTPException504"
      [] OTHER -> None

\* what get_user_info raises, None when it returns the profile
get_user_info(ui) ==
    CASE ui = "error" -> "GitHubAuthenticationError"
      [] ui = "timeout" -> "HTTPException504"
      [] OTHER -> None

\* github_callback's handlers: an HTTPException passes, the rest becomes 500
CallbackFailure(raised) ==
    IF raised = "HTTPException504"
    THEN [status |-> 504, detail |-> "GitHub API request timed out"]
    ELSE [status |-> 500, detail |-> "Authentication failed. Please try again."]

\* github_callback from the code exchange on: the response and the collection
CallbackExchange(us, ex, ui, github_user, dbOk, t) ==
    LET fail(r) == [status |-> r.status, detail |-> r.detail, users |-> us,
                    user |-> 0, issued |-> FALSE]
        expires == IF ex = "token_expires_in"
                   THEN t + upstream_expires_in ELSE NoTime
        up == create_or_update_user(us, github_user, "gho_token", expires, t, dbOk)
    IN  IF UnboundCallRaises(1, exchange_code_for_token_params)
        THEN fail(CallbackFailure("TypeError"))
        ELSE IF exchange_code_for_token(ex) # None
        THEN fail(CallbackFailure(exchange_code_for_token(ex)))
        ELSE IF ex = "no_access_token"
        THEN fail([status |-> 401,
                   detail |-> "Failed to obtain access token from GitHub"])
        ELSE IF get_user_info(ui) # None
        THEN fail(CallbackFailure(get_user_info(ui)))
        ELSE IF up.raised # None
        THEN fail(CallbackFailure(up.raised))
        ELSE IF up.user = 0
        THEN [fail(CallbackFailure("AttributeError")) EXCEPT !.users = up.users]
        ELSE [status |-> 200, detail |-> "", users |-> up.users,
              user |-> up.user, issued |-> TRUE]

\* what the provider and the document store answer during one callback
CallbackAnswers ==
    {[ex |-> "token", ui |-> "profile", id |-> id, dbOk |-> TRUE] :
        id \in GithubIds}
    \cup {[ex |-> ex, ui |-> "profile", id |-> 1, dbOk |-> TRUE] :
            ex \in ExchangeAnswers}
    \cup {[ex |-> "token", ui |-> ui, id |-> 1, dbOk |-> TRUE] :
            ui \in ProfileAnswers}
    \cup {[ex |-> "token", ui |-> "profile", id |-> 1, dbOk |-> FALSE]}

(***************************************************************************)
(* GET /auth/github/callback?code=&state= on process i.                     *)
(***************************************************************************)
github_callback(i, state) ==
    LET d == oauth_states[i]
        base == [NoAuthResp EXCEPT
                    !.kind = "callback",
                    !.created = (stateCreatedAt[state] # NoTime),
                    !.sameProcess = (stateCreatedOn[state] = i),
                    !.age = IF stateCreatedAt[state] # NoTime
                            THEN now - stateCreatedAt[state] ELSE 0,
                    !.priorConsumed = stateConsumed[state],
                    !.priorFailed = stateFailedAfter[state],
                    !.usersBefore = Len(users)]
    IN  IF d[state] = NoTime
        THEN /\ authResp' = [base EXCEPT !.status = 400,
                 !.detail = "Invalid or expired state parameter. Please try logging in again."]
             /\ UNCHANGED <<oauth_states, stateConsumed, stateFailedAfter, users>>
        ELSE IF StateExpired(d[state], now)
        THEN /\ oauth_states' = [oauth_states EXCEPT ![i][state] = NoTime]
             /\ authResp' = [base EXCEPT !.status = 400,
                 !.detail = "State token has expired. Please try logging in again."]
             /\ UNCHANGED <<stateConsumed, stateFailedAfter, users>>
        ELSE \E a \in CallbackAnswers :
             LET r == CallbackExchange(users, a.ex, a.ui,
                        Profile(TRUE, a.id, "alice", None), a.dbOk, now)
             IN  /\ Len(r.users) <= MaxUsers
                 /\ oauth_states' =
                        [oauth_states EXCEPT ![i] = ConsumeState(d, state)]
                 /\ stateConsumed' = [stateConsumed EXCEPT ![state] = TRUE]
                 /\ stateFailedAfter' =
                        [stateFailedAfter EXCEPT ![state] = (r.status # 200)]
                 /\ users' = r.users
                 /\ authResp' =
                        [base EXCEPT
                            !.passed = TRUE, !.status = r.status,
                            !.exchange = a.ex, !.profile = a.ui,
                            !.upstreamOk =
                                /\ a.ex \in {"token", "token_expires_in"}
                                /\ a.ui = "profile" /\ a.dbOk,
                            !.detail = r.detail, !.issued = r.issued,
                            !.user = r.user,
                            !.access_token =
                                IF r.issued
                                THEN create_access_token(r.user, now)
                                ELSE NoToken,
                            !.refresh_token =
                                IF r.issued
                                THEN create_refresh_token(r.user, now)
                                ELSE NoToken,
                            !.token_type = IF r.issued THEN "bearer" ELSE "",
                            !.expires_in =
                                IF r.issued
                                THEN jwt_access_token_expire_minutes * 60
                                ELSE 0]

(***************************************************************************)
(* state_manager.py: OAuthStateManager over the shared Redis store.  A key *)
(* "oauth_state:<state>" holds the time at which it expires; a key past     *)
(* that time is gone.  One Redis command runs atomically in the store; the *)
(* caller's coroutine resumes with the reply later, so calls of several    *)
(* processes interleave between a command and its return.                  *)
(***************************************************************************)
Callers == 1..NumCallers
MgrStates == {"s1"}

KeyLive(expire_at, t) == expire_at # NoTime /\ t < expire_at

\* SETEX key ttl "1"
RedisSetex(store, state, ttl, t) == [store EXCEPT ![state] = t + ttl]

\* EXISTS key, with no delete: the check of a check-then-delete pair
RedisExists(store, state, t) ==
    [store |-> store,
     count |-> IF KeyLive(store[state], t) THEN 1 ELSE 0]

\* DEL key: the store afterwards and the count of keys deleted
RedisDelete(store, state, t) ==
    [store |-> [store EXCEPT ![state] = NoTime],
     count |-> IF KeyLive(store[state], t) THEN 1 ELSE 0]

Idle == [op |-> "idle", state |-> None, count |-> 0, error |-> FALSE,
         created |-> FALSE, live |-> FALSE]

\* create_state: SETEX stores the key with the lifetime; RedisError -> False
create_state(state, storeUp) ==
    /\ mgrStored[state] < MaxCreates
    /\ mgrMade' = [state |-> state, result |-> storeUp]
    /\ IF storeUp
       THEN /\ redis' = RedisSetex(redis, state, OAUTH_STATE_TTL, now)
            /\ mgrStored' = [mgrStored EXCEPT ![state] = @ + 1]
            /\ mgrCreatedAt' = [mgrCreatedAt EXCEPT ![state] = now]
            /\ mgrConsumed' = [mgrConsumed EXCEPT ![state] = FALSE]
       ELSE UNCHANGED <<redis, mgrStored, mgrCreatedAt, mgrConsumed>>
    /\ UNCHANGED <<mgrCall, mgrTrue, mgrVerified, mgrOverlap>>

\* what the history says of a state: stored, not yet consumed, and younger
\* than the lifetime
HistoryLive(state) ==
    /\ mgrCreatedAt[state] # NoTime
    /\ now - mgrCreatedAt[state] < OAUTH_STATE_TTL
    /\ ~mgrConsumed[state]

\* verify_and_consume_state up to its await: DEL reaches the store, or
\* RedisError
verify_and_consume_state_call(c, state, storeUp) ==
    /\ mgrCall[c] = Idle
    /\ mgrVerified[state] < NumCallers
    /\ LET del == RedisDelete(redis, state, now)
       IN  /\ mgrCall' = [mgrCall EXCEPT ![c] =
                  [op |-> "verify", state |-> state,
                   count |-> IF storeUp THEN del.count ELSE 0,
                   error |-> ~storeUp,
                   created |-> mgrCreatedAt[state] # NoTime,
                   live |-> HistoryLive(state)]]
           /\ redis' = IF storeUp THEN del.store ELSE redis
           /\ mgrConsumed' =
                  IF storeUp /\ HistoryLive(state)
                  THEN [mgrConsumed EXCEPT ![state] = TRUE]
                  ELSE mgrConsumed
    /\ mgrOverlap' =
           IF \E d \in Callers : mgrCall[d].op = "verify" /\ mgrCall[d].state = state
           THEN [mgrOverlap EXCEPT ![state] = TRUE]
           ELSE mgrOverlap
    /\ UNCHANGED <<mgrMade, mgrStored, mgrCreatedAt, mgrTrue, mgrVerified>>

\* the value verify_and_consume_state returns
verify_and_consume_state_result(call) ==
    IF call.error THEN FALSE ELSE call.count > 0

\* the coroutine resumes with the store's reply and returns
verify_and_consume_state_return(c) ==
    /\ mgrCall[c] # Idle
    /\ LET call == mgrCall[c]
       IN  /\ mgrTrue' =
                  IF verify_and_consume_state_result(call)
                  THEN [mgrTrue EXCEPT ![call.state] = @ + 1]
                  ELSE mgrTrue
           /\ mgrVerified' =
                  IF call.created
                  THEN [mgrVerified EXCEPT ![call.state] = @ + 1]
                  ELSE mgrVerified
    /\ mgrCall' = [mgrCall EXCEPT ![c] = Idle]
    /\ UNCHANGED <<redis, mgrMade, mgrStored, mgrCreatedAt, mgrConsumed,
                   mgrOverlap>>

NoneMade == [state |-> None, result |-> FALSE]

(***************************************************************************)
(* Initial values.  A specification below starts every part of the program *)
(* it does not exercise in the state after construction.                    *)
(***************************************************************************)
InitClock == now = 0 /\ ticks = 0

QuietAuthVars ==
    /\ oauth_states = [i \in Instances |-> EmptyStates]
    /\ request_count = [i \in Instances |-> 0]
    /\ nextState = 0
    /\ stateCreatedAt = [s \in StateTokens |-> NoTime]
    /\ stateCreatedOn = [s \in StateTokens |-> None]
    /\ stateConsumed = [s \in StateTokens |-> FALSE]
    /\ stateFailedAfter = [s \in StateTokens |-> FALSE]
    /\ authResp = NoAuthResp

InitMgrVars ==
    /\ redis = [s \in MgrStates |-> NoTime]
    /\ mgrCall = [c \in Callers |-> Idle]
    /\ mgrMade = NoneMade
    /\ mgrStored = [s \in MgrStates |-> 0]
    /\ mgrCreatedAt = [s \in MgrStates |-> NoTime]
    /\ mgrConsumed = [s \in MgrStates |-> FALSE]
    /\ mgrTrue = [s \in MgrStates |-> 0]
    /\ mgrVerified = [s \in MgrStates |-> 0]
    /\ mgrOverlap = [s \in MgrStates |-> FALSE]

NoOrigin == [by |-> "none", sub |-> 0]

NoTokOut == [called |-> FALSE, expected |-> "", at |-> 0,
             verdict |-> NoVerdict]

InitTokenVars ==
    /\ tokHeld = NoToken
    /\ tokOrigin = NoOrigin
    /\ tokOut = NoTokOut

NoGuardOut == [called |-> FALSE, variant |-> "", verified |-> FALSE,
               found |-> FALSE, tokensValid |-> FALSE, up |-> "",
               result |-> NoGuardResult]

\* the outputs record the answers the request met: the store's (dbOk, db1,
\* db2) and the upstream API's (up)
NoRefreshOut == [called |-> FALSE, dbOk |-> TRUE, up |-> "",
                 result |-> NoRefreshResult]

NoTokensResult == [raised |-> None, result |-> FALSE, upstream |-> FALSE]

NoTokensOut == [called |-> FALSE, user_id |-> 0, dbOk |-> TRUE, up |-> "",
                result |-> NoTokensResult]

NoOptOut == [called |-> FALSE, bearer |-> FALSE, db1 |-> TRUE, db2 |-> TRUE,
             up |-> "", result |-> NoOptResult]

InitGuardVars ==
    /\ guardOut = NoGuardOut
    /\ refreshOut = NoRefreshOut
    /\ tokensOut = NoTokensOut
    /\ optOut = NoOptOut

NoSigOut == [called |-> FALSE, body |-> <<>>, header |-> NoHeader,
             fault |-> FALSE, raised |-> FALSE, result |-> FALSE]

InitSigVars == sigOut = NoSigOut

NoWhResp == [called |-> FALSE, status |-> 0, message |-> "", steps |-> <<>>,
             signed |-> FALSE, owner |-> None, ownerKnown |-> FALSE,
             stored |-> FALSE, storedFor |-> None]

NoNotifOut ==
    [op |-> "", user_id |-> 0, notification_id |-> 0, processed |-> <<>>,
     limit |-> 0, skip |-> 0, event_type |-> "",
     github_user |-> Profile(FALSE, 0, None, None), dbOk |-> TRUE,
     raised |-> None, flag |-> FALSE, count |-> 0, list |-> <<>>,
     status |-> 0, detail |-> ""]

InitHookVars ==
    notifications = <<>> /\ whResp = NoWhResp /\ notifOut = NoNotifOut

NoUserCall == [op |-> "idle", github_user |-> Profile(FALSE, 0, None, None),
               github_token |-> "", token_expires_at |-> NoTime,
               existing |-> 0]

NoUpsertOut == [called |-> "", github_user |-> Profile(FALSE, 0, None, None),
                github_token |-> "", token_expires_at |-> NoTime,
                dbOk |-> TRUE, at |-> 0, before |-> <<>>, raised |-> None,
                user |-> 0]

InitUserCalls ==
    /\ userCall = [c \in Callers |-> NoUserCall]
    /\ upsertOut = NoUpsertOut

\* a specification that does not depend on how the store is set up runs
\* with the index in place and with datetimes that carry their time zone
InitUserVars ==
    /\ github_id_unique = TRUE
    /\ tz_aware = TRUE
    /\ InitUserCalls

(***************************************************************************)
(* The specification of the /auth/github routes: any number of server      *)
(* processes, each with its own state map, handle logins and callbacks.    *)
(***************************************************************************)
nonAuthVars == <<mgrVars, tokenVars, guardVars, sigVars, hookVars, userVars>>

InitAuthVars ==
    /\ oauth_states = [i \in Instances |-> EmptyStates]
    /\ \E c \in {0, OAUTH_STATE_CLEANUP_INTERVAL - 2} :
          request_count = [i \in Instances |-> c]
    /\ nextState = 0
    /\ stateCreatedAt = [s \in StateTokens |-> NoTime]
    /\ stateCreatedOn = [s \in StateTokens |-> None]
    /\ stateConsumed = [s \in StateTokens |-> FALSE]
    /\ stateFailedAfter = [s \in StateTokens |-> FALSE]
    /\ authResp = NoAuthResp

InitAuth ==
    /\ InitClock /\ InitAuthVars /\ users = <<>>
    /\ InitMgrVars /\ InitTokenVars /\ InitGuardVars /\ InitSigVars
    /\ InitHookVars /\ InitUserVars

AuthTick ==
    \E d \in StateJumps :
        /\ Tick(d)
        /\ authResp' = NoAuthResp
        /\ UNCHANGED <<oauth_states, request_count, nextState, stateCreatedAt,
                       stateCreatedOn, stateConsumed, stateFailedAfter, users,
                       nonAuthVars>>

\* whether the shared store is reachable is an input of the login request
AuthLogin ==
    \E i \in Instances, storeUp \in BOOLEAN :
        github_login(i, storeUp) /\ UNCHANGED <<now, ticks, nonAuthVars>>

AuthCallback ==
    \E i \in Instances, state \in StateTokens :
        /\ github_callback(i, state)
        /\ UNCHANGED <<now, ticks, request_count, nextState,
                       stateCreatedAt, stateCreatedOn, nonAuthVars>>

NextAuth == AuthTick \/ AuthLogin \/ AuthCallback

vars == <<now, ticks, users, authVars, mgrVars, tokenVars, guardVars,
          sigVars, hookVars, userVars>>

SpecAuth == InitAuth /\ [][NextAuth]_vars

(***************************************************************************)
(* The specification of OAuthStateManager: callers in several processes    *)
(* create and verify states against one store, which may fail a command,   *)
(* while time passes.                                                      *)
(***************************************************************************)
nonMgrVars == <<authVars, users, tokenVars, guardVars, sigVars, hookVars, userVars>>

InitMgr ==
    /\ InitClock /\ QuietAuthVars /\ users = <<>>
    /\ InitMgrVars /\ InitTokenVars /\ InitGuardVars /\ InitSigVars
    /\ InitHookVars /\ InitUserVars

MgrTick ==
    \E d \in StateJumps :
        Tick(d) /\ UNCHANGED <<mgrVars, nonMgrVars>>

\* whether the store answers a command is an input of the call
MgrCreate ==
    \E state \in MgrStates, storeUp \in BOOLEAN :
        /\ create_state(state, storeUp)
        /\ UNCHANGED <<now, ticks, nonMgrVars>>

MgrVerify ==
    \E c \in Callers, state \in MgrStates, storeUp \in BOOLEAN :
        /\ verify_and_consume_state_call(c, state, storeUp)
        /\ UNCHANGED <<now, ticks, nonMgrVars>>

MgrReturn ==
    \E c \in Callers :
        /\ verify_and_consume_state_return(c)
        /\ UNCHANGED <<now, ticks, nonMgrVars>>

NextMgr == MgrTick \/ MgrCreate \/ MgrVerify \/ MgrReturn

SpecMgr == InitMgr /\ [][NextMgr]_vars

(***************************************************************************)
(* The specification of verify_token: a client obtains a token from        *)
(* create_access_token or create_refresh_token, or brings one of its own,  *)
(* and presents it for either type while time passes.                       *)
(***************************************************************************)
Subjects == 1..MaxUsers
TokenTypes == {"access", "refresh"}

TokenJumps == {jwt_access_token_expire_minutes * 60,
               jwt_refresh_token_expire_days * 86400}

\* tokens no issuer of this program made: a string that is no JWT, tokens
\* signed with another key (fresh and expired), and tokens signed with the
\* program's key whose claims the issuers never write: no type claim, an
\* empty subject, an ill-formed subject, the id of no user
OtherTokens(t) ==
    LET fresh == create_access_token(1, t)
        old == create_access_token(1, t - 2 * jwt_access_token_expire_minutes * 60)
    IN  {[NoToken EXCEPT !.sub = 1],
         [fresh EXCEPT !.key = "other_key"],
         [old EXCEPT !.key = "other_key"],
         [fresh EXCEPT !.claims = {"sub", "exp"}, !.type = ""],
         [fresh EXCEPT !.sub = 0],
         [fresh EXCEPT !.sub = 0 - 1],
         [fresh EXCEPT !.sub = MaxUsers + 1]}

nonTokenVars == <<authVars, users, mgrVars, guardVars, sigVars, hookVars, userVars>>

InitToken ==
    /\ InitClock /\ QuietAuthVars /\ users = <<>>
    /\ InitMgrVars /\ InitTokenVars /\ InitGuardVars /\ InitSigVars
    /\ InitHookVars /\ InitUserVars

TokenTick ==
    \E d \in TokenJumps :
        /\ Tick(d)
        /\ tokOut' = NoTokOut
        /\ UNCHANGED <<tokHeld, tokOrigin, nonTokenVars>>

TokenIssue ==
    \E sub \in Subjects, type \in TokenTypes :
        /\ tokHeld' = IF type = "access"
                      THEN create_access_token(sub, now)
                      ELSE create_refresh_token(sub, now)
        /\ tokOrigin' = [by |-> type, sub |-> sub]
        /\ tokOut' = NoTokOut
        /\ UNCHANGED <<now, ticks, nonTokenVars>>

TokenPresent ==
    \E token \in OtherTokens(now) :
        /\ tokHeld' = token
        /\ tokOrigin' = [by |-> "other", sub |-> token.sub]
        /\ tokOut' = NoTokOut
        /\ UNCHANGED <<now, ticks, nonTokenVars>>

TokenVerify ==
    \E token_type \in TokenTypes :
        /\ tokHeld # NoToken
        /\ tokOut' = [called |-> TRUE, expected |-> token_type, at |-> now,
                      verdict |-> verify_token(tokHeld, token_type, now)]
        /\ UNCHANGED <<now, ticks, tokHeld, tokOrigin, nonTokenVars>>

NextToken == TokenTick \/ TokenIssue \/ TokenPresent \/ TokenVerify

SpecToken == InitToken /\ [][NextToken]_vars

(***************************************************************************)
(* The specification of the session guard: users sign up through           *)
(* create_or_update_user, clients hold tokens, and requests run either      *)
(* definition of get_current_user while the store and the upstream API      *)
(* answer or fail.                                                          *)
(***************************************************************************)
GuardJumps == {upstream_expires_in}

nonGuardVars == <<authVars, mgrVars, sigVars, hookVars, userVars>>

InitGuard ==
    /\ InitClock /\ QuietAuthVars /\ users = <<>>
    /\ InitMgrVars /\ InitTokenVars /\ InitGuardVars /\ InitSigVars
    /\ InitHookVars /\ InitUserCalls
    /\ github_id_unique = TRUE
    /\ tz_aware \in BOOLEAN

\* an action that is no request leaves no output behind
GuardQuiet ==
    /\ guardOut' = NoGuardOut
    /\ refreshOut' = NoRefreshOut
    /\ tokensOut' = NoTokensOut
    /\ optOut' = NoOptOut

GuardTick ==
    \E d \in GuardJumps :
        /\ Tick(d)
        /\ GuardQuiet
        /\ UNCHANGED <<users, tokenVars, nonGuardVars>>

\* tokens the issuers made for user 1 so long ago that they have expired
ExpiredTokens(t) ==
    {create_access_token(1, t - 2 * jwt_access_token_expire_minutes * 60),
     create_refresh_token(1, t - 2 * jwt_refresh_token_expire_days * 86400)}

\* a user signs in, before time passes: the upstream token comes with or
\* without an expiry
GuardSignUp ==
    \E id \in GithubIds, expiring \in BOOLEAN :
        /\ ticks = 0
        /\ users' = create_or_update_user(users,
                        Profile(TRUE, id, "alice", None), "gho_token",
                        IF expiring THEN now + upstream_expires_in ELSE NoTime,
                        now, TRUE).users
        /\ GuardQuiet
        /\ UNCHANGED <<now, ticks, tokenVars, nonGuardVars>>

GuardIssue ==
    \E sub \in 1..Len(users), type \in TokenTypes :
        /\ tokHeld' = IF type = "access"
                      THEN create_access_token(sub, now)
                      ELSE create_refresh_token(sub, now)
        /\ tokOrigin' = [by |-> type, sub |-> sub]
        /\ GuardQuiet
        /\ UNCHANGED <<now, ticks, users, tokOut, nonGuardVars>>

GuardPresent ==
    \E token \in OtherTokens(now) \cup ExpiredTokens(now) :
        /\ tokHeld' = token
        /\ tokOrigin' = [by |-> "other", sub |-> token.sub]
        /\ GuardQuiet
        /\ UNCHANGED <<now, ticks, users, tokOut, nonGuardVars>>

\* one request through a guard; what the two store lookups and the upstream
\* API answer are inputs of the request
GuardAnswers ==
    {[db1 |-> TRUE, db2 |-> TRUE, up |-> up] : up \in UpstreamAnswers}
    \cup {[db1 |-> FALSE, db2 |-> TRUE, up |-> "valid"],
          [db1 |-> TRUE, db2 |-> FALSE, up |-> "valid"]}

GuardRequest ==
    \E variant \in {"routes", "core"}, a \in GuardAnswers :
        LET db1 == a.db1
            db2 == a.db2
            up == a.up
            v == verify_token(tokHeld, "access", now)
            u == get_user_by_id(users, v.sub, db1)
            tv == verify_user_tokens(users, u.user, now, db2, up)
            verified == v.outcome = "returned"
            found == verified /\ u.user # 0
        IN  /\ tokHeld # NoToken
            /\ guardOut' =
                  [called |-> TRUE, variant |-> variant,
                   verified |-> verified, found |-> found,
                   tokensValid |-> found /\ tv.result, up |-> up,
                   result |-> IF variant = "routes"
                              THEN routes_get_current_user(
                                       tokHeld, users, now, db1, db2, up)
                              ELSE core_get_current_user(
                                       tokHeld, users, now, db1, db2, up)]
            /\ refreshOut' = NoRefreshOut
            /\ tokensOut' = NoTokensOut
            /\ optOut' = NoOptOut
            /\ UNCHANGED <<now, ticks, users, tokenVars, nonGuardVars>>

\* what the store lookup and the upstream API answer during one call of
\* verify_user_tokens
TokensAnswers ==
    {[dbOk |-> TRUE, up |-> up] : up \in UpstreamAnswers}
    \cup {[dbOk |-> FALSE, up |-> "valid"]}

\* POST /auth/refresh with the held token as the bearer token
GuardRefresh ==
    \E a \in TokensAnswers :
        /\ tokHeld # NoToken
        /\ refreshOut' =
              [called |-> TRUE, dbOk |-> a.dbOk, up |-> a.up,
               result |-> refresh_access_token(tokHeld, users, now,
                                               a.dbOk, a.up)]
        /\ guardOut' = NoGuardOut
        /\ tokensOut' = NoTokensOut
        /\ optOut' = NoOptOut
        /\ UNCHANGED <<now, ticks, users, tokenVars, nonGuardVars>>

\* a request to a route that depends on get_optional_user, with the held
\* token as the bearer token or with none
OptionalInputs ==
    {[bearer |-> FALSE, scheme_status |-> st, db1 |-> TRUE, db2 |-> TRUE,
      up |-> "valid"] : st \in HTTPBearerStatuses}
    \cup {[bearer |-> TRUE, scheme_status |-> 0, db1 |-> a.db1,
            db2 |-> a.db2, up |-> a.up] : a \in GuardAnswers}

GuardOptional ==
    \E a \in OptionalInputs :
        LET bearer == a.bearer
            scheme_status == a.scheme_status
        IN
        /\ bearer => tokHeld # NoToken
        /\ optOut' =
              [called |-> TRUE, bearer |-> bearer, db1 |-> a.db1,
               db2 |-> a.db2, up |-> a.up,
               result |-> optional_user_dependency(bearer, scheme_status,
                              tokHeld, users, now, a.db1, a.db2, a.up)]
        /\ guardOut' = NoGuardOut
        /\ refreshOut' = NoRefreshOut
        /\ tokensOut' = NoTokensOut
        /\ UNCHANGED <<now, ticks, users, tokenVars, nonGuardVars>>

NextGuard ==
    \/ GuardTick \/ GuardSignUp \/ GuardIssue \/ GuardPresent
    \/ GuardRequest \/ GuardRefresh \/ GuardOptional

SpecGuard == InitGuard /\ [][NextGuard]_vars

(***************************************************************************)
(* The specification of verify_user_tokens: users sign in, time passes, and *)
(* callers ask for any id whether its tokens are still valid.  An id that  *)
(* can be no user's is asked for with the store and the upstream API       *)
(* answering normally.                                                      *)
(***************************************************************************)
\* a caller's verify_user_tokens(user_id), for the id of a user, of no user,
\* and for ill-formed ids
UserIdInputs == (0 - 1)..(MaxUsers + 1)

InitUserTokens ==
    /\ InitClock /\ QuietAuthVars /\ users = <<>>
    /\ InitMgrVars /\ InitTokenVars /\ InitGuardVars /\ InitSigVars
    /\ InitHookVars /\ InitUserCalls
    /\ github_id_unique = TRUE
    /\ tz_aware \in BOOLEAN

UserTokensVerify ==
    \E user_id \in UserIdInputs, a \in TokensAnswers :
        /\ (user_id \notin 1..MaxUsers) => (a.dbOk /\ a.up = "valid")
        /\ tokensOut' =
              [called |-> TRUE, user_id |-> user_id, dbOk |-> a.dbOk,
               up |-> a.up,
               result |-> verify_user_tokens(users, user_id, now,
                                             a.dbOk, a.up)]
        /\ guardOut' = NoGuardOut
        /\ refreshOut' = NoRefreshOut
        /\ optOut' = NoOptOut
        /\ UNCHANGED <<now, ticks, users, tokenVars, nonGuardVars>>

NextUserTokens == GuardTick \/ GuardSignUp \/ UserTokensVerify

SpecUserTokens == InitUserTokens /\ [][NextUserTokens]_vars

(***************************************************************************)
(* The specification of the users collection under one caller at a time:   *)
(* sign-ins through create_or_update_user and changes of the webhook flag, *)
(* each at its own time.                                                    *)
(***************************************************************************)
UserJumps == {60}

\* what a sign-in brings: the provider's profile, the upstream token and
\* whether it expires, and whether the store answers
UpsertInputs ==
    {[github_user |-> Profile(TRUE, id, p.login, p.name),
      github_token |-> p.token, expiring |-> p.expiring, dbOk |-> TRUE] :
        id \in GithubIds,
        p \in {[login |-> "alice", name |-> None, token |-> "gho_token",
                expiring |-> FALSE],
               [login |-> "bob", name |-> "Ada", token |-> "gho_token2",
                expiring |-> TRUE]}}
    \cup {[github_user |-> Profile(TRUE, 1, "alice", None),
            github_token |-> "gho_token", expiring |-> FALSE, dbOk |-> FALSE],
          [github_user |-> Profile(FALSE, 0, "alice", None),
            github_token |-> "gho_token", expiring |-> FALSE, dbOk |-> TRUE]}

nonUserVars == <<authVars, mgrVars, tokenVars, guardVars, sigVars, hookVars>>

InitUsers ==
    /\ InitClock /\ QuietAuthVars /\ users = <<>>
    /\ InitMgrVars /\ InitTokenVars /\ InitGuardVars /\ InitSigVars
    /\ InitHookVars /\ InitUserVars

UsersUpsert ==
    \E in \in UpsertInputs, d \in UserJumps :
        LET expires == IF in.expiring THEN now + upstream_expires_in
                       ELSE NoTime
            r == create_or_update_user(users, in.github_user, in.github_token,
                                       expires, now, in.dbOk)
        IN  /\ Tick(d)
            /\ users' = r.users
            /\ upsertOut' =
                  [called |-> "create_or_update_user",
                   github_user |-> in.github_user,
                   github_token |-> in.github_token,
                   token_expires_at |-> expires, dbOk |-> in.dbOk,
                   at |-> now, before |-> users, raised |-> r.raised,
                   user |-> r.user]
            /\ UNCHANGED <<github_id_unique, tz_aware, userCall, nonUserVars>>

UsersWebhookStatus ==
    \E user_id \in 1..MaxUsers, configured \in BOOLEAN, d \in UserJumps :
        LET r == update_webhook_status(users, user_id, configured, now, TRUE)
        IN  /\ Tick(d)
            /\ users' = r.users
            /\ upsertOut' =
                  [NoUpsertOut EXCEPT !.called = "update_webhook_status",
                                      !.at = now, !.before = users,
                                      !.raised = r.raised,
                                      !.user = IF r.result THEN user_id ELSE 0]
            /\ UNCHANGED <<github_id_unique, tz_aware, userCall, nonUserVars>>

NextUsers == UsersUpsert \/ UsersWebhookStatus

SpecUsers == InitUsers /\ [][NextUsers]_vars

(***************************************************************************)
(* The specification of the users collection under concurrent callers:     *)
(* OAuth callbacks of several requests run create_or_update_user at once.  *)
(* At startup lifespan creates the unique index on github_id; when         *)
(* create_index raises, lifespan logs a warning and the application runs   *)
(* without the index.                                                       *)
(***************************************************************************)
RaceInputs ==
    {[github_user |-> Profile(TRUE, id, "alice", None),
      github_token |-> "gho_token", token_expires_at |-> NoTime] :
        id \in GithubIds}

InitRace ==
    /\ InitClock /\ QuietAuthVars /\ users = <<>>
    /\ InitMgrVars /\ InitTokenVars /\ InitGuardVars /\ InitSigVars
    /\ InitHookVars
    /\ github_id_unique \in BOOLEAN
    /\ tz_aware = TRUE
    /\ InitUserCalls

\* the call up to the reply of find_one
RaceFind ==
    \E c \in Callers, in \in RaceInputs :
        /\ userCall[c].op = "idle"
        /\ userCall' = [userCall EXCEPT ![c] =
                [op |-> "found", github_user |-> in.github_user,
                 github_token |-> in.github_token,
                 token_expires_at |-> in.token_expires_at,
                 existing |-> find_one_github_id(users, in.github_user.id)]]
        /\ upsertOut' = NoUpsertOut
        /\ UNCHANGED <<now, ticks, users, github_id_unique, tz_aware,
                       nonUserVars>>

\* the rest of the call: update_one of the record found, or insert_one
RaceWrite ==
    \E c \in Callers :
        LET call == userCall[c]
            dup == DuplicateKeyError(users, github_id_unique,
                                     call.github_user.id)
        IN  /\ call.op = "found"
            /\ users' = IF call.existing # 0
                         THEN update_one(users, call.existing, call, now)
                         ELSE IF dup THEN users
                         ELSE insert_one(users, call, now)
            /\ userCall' = [userCall EXCEPT ![c] = NoUserCall]
            /\ upsertOut' =
                  [called |-> "create_or_update_user",
                   github_user |-> call.github_user,
                   github_token |-> call.github_token,
                   token_expires_at |-> call.token_expires_at,
                   dbOk |-> TRUE, at |-> now, before |-> users,
                   raised |-> None,
                   user |-> IF call.existing # 0 THEN call.existing
                            ELSE IF dup THEN 0
                            ELSE Len(users) + 1]
            /\ UNCHANGED <<now, ticks, github_id_unique, tz_aware, nonUserVars>>

NextRace == RaceFind \/ RaceWrite

SpecRace == InitRace /\ [][NextRace]_vars

(***************************************************************************)
(* The specification of verify_github_signature: it is called on any body  *)
(* with any of the headers a sender may put on it.                          *)
(***************************************************************************)
nonSigVars == <<now, ticks, authVars, users, mgrVars, tokenVars, guardVars,
                hookVars, userVars>>

\* the call's arguments are drawn at the start
InitSig ==
    /\ InitClock /\ QuietAuthVars /\ users = <<>>
    /\ InitMgrVars /\ InitTokenVars /\ InitGuardVars /\ InitHookVars
    /\ InitUserVars
    /\ \E body \in Bodies, fault \in BOOLEAN :
          \E header \in HeaderInputs(body) :
              sigOut = [NoSigOut EXCEPT !.body = body, !.header = header,
                                        !.fault = fault]

SigVerify ==
    LET r == verify_github_signature(sigOut.body, sigOut.header, sigOut.fault)
    IN  /\ ~sigOut.called
        /\ sigOut' = [sigOut EXCEPT !.called = TRUE, !.raised = r.raised,
                                    !.result = r.result]
        /\ UNCHANGED nonSigVars

NextSig == SigVerify

SpecSig == InitSig /\ [][NextSig]_vars

(***************************************************************************)
(* The specification of POST /webhooks/github: users sign up, and           *)
(* deliveries arrive with any body, header and event while the store        *)
(* answers or fails.                                                        *)
(***************************************************************************)
nonHookVars == <<now, ticks, authVars, mgrVars, tokenVars, guardVars,
                 sigVars, userVars>>

InitHook ==
    /\ InitClock /\ QuietAuthVars /\ users = <<>>
    /\ InitMgrVars /\ InitTokenVars /\ InitGuardVars /\ InitSigVars
    /\ InitHookVars /\ InitUserVars

HookIds == {1, 2}

HookBodies ==
    {<<>>, <<1>>, <<0, 1, 1>>, <<2, 1, 1>>}
    \cup {<<1, o, r>> : o \in BodyBytes, r \in BodyBytes}

\* of the headers, those a delivery needs: none, the right one, the right
\* one for another body, and one made under another secret
HookHeaders(body) ==
    {NoHeader,
     Header(SignatureOf(github_webhook_secret, body)),
     Header(SignatureOf(github_webhook_secret, <<1, 1, 1, 1>>)),
     Header(SignatureOf("b", body))}

\* what the store answers to the lookup and to the insert
HookAnswers ==
    {[dbFind |-> TRUE, dbInsert |-> TRUE],
     [dbFind |-> FALSE, dbInsert |-> TRUE],
     [dbFind |-> TRUE, dbInsert |-> FALSE]}

HookSignUp ==
    \E id \in HookIds, login \in Logins :
        /\ users' = create_or_update_user(users,
                        Profile(TRUE, id, login, None), "gho_token", NoTime,
                        now, TRUE).users
        /\ whResp' = NoWhResp
        /\ UNCHANGED <<notifications, notifOut, nonHookVars>>

\* what the header verifies against is the body as it arrived
HookDeliver ==
    \E body \in HookBodies, event \in Events, a \in HookAnswers :
        \E header \in HookHeaders(body) :
            LET r == github_webhook(body, header, event, FALSE, users,
                                    notifications, now, a.dbFind, a.dbInsert)
                owner == IF Len(body) = 3 /\ body[1] = 1
                         THEN OwnerOf(body) ELSE None
            IN  /\ Len(notifications) < MaxNotifs
                /\ notifications' = r.notifications
                /\ whResp' =
                      [called |-> TRUE, status |-> r.status,
                       message |-> r.message, steps |-> r.steps,
                       signed |-> header = Header(
                           SignatureOf(github_webhook_secret, body)),
                       owner |-> owner,
                       ownerKnown |-> \E k \in 1..Len(users) :
                                          users[k].username = owner,
                       stored |-> r.notifications # notifications,
                       storedFor |->
                           IF r.notifications # notifications
                           THEN users[r.notifications[
                                    Len(r.notifications)].user_id].username
                           ELSE None]
                /\ UNCHANGED <<users, notifOut, nonHookVars>>

NextHook == HookSignUp \/ HookDeliver

SpecHook == InitHook /\ [][NextHook]_vars

(***************************************************************************)
(* The specification of the webhook_notifications collection: deliveries   *)
(* create notifications for their owners, who list and mark them through   *)
(* WebhookService, one call at a time, while the store answers or fails.   *)
(***************************************************************************)
NotifJumps == {60}

\* the users notifications belong to, and the ids a caller may pass: 0 is
\* an id that ObjectId.is_valid rejects
Owners == {1, 2}
UserIdArgs == {0} \cup Owners
NotificationIdArgs == 0..MaxDocs
ProcessedArgs == {<<>>, <<TRUE>>, <<FALSE>>}

\* the store answers every call, or fails in a call with arguments that
\* pass the validation
StoreAnswers(args, failing) == (args \X {TRUE}) \cup (failing \X {FALSE})

FirstListArgs == [processed |-> <<>>, limit |-> 1, skip |-> 0]

\* what a caller of get_user_notifications asks for: limits below, within
\* and above the bounds, and skips below and within
ListArgs ==
    {FirstListArgs,
     [processed |-> <<>>, limit |-> 0, skip |-> 0 - 1],
     [processed |-> <<>>, limit |-> 101, skip |-> 1],
     [processed |-> <<FALSE>>, limit |-> 2, skip |-> 0],
     [processed |-> <<TRUE>>, limit |-> 100, skip |-> 1]}

nonNotifVars == <<users, authVars, mgrVars, tokenVars, guardVars, sigVars,
                  userVars, whResp>>

InitNotif ==
    /\ InitClock /\ QuietAuthVars /\ users = <<>>
    /\ InitMgrVars /\ InitTokenVars /\ InitGuardVars /\ InitSigVars
    /\ InitHookVars /\ InitUserVars

NotifTick ==
    \E d \in NotifJumps :
        /\ ticks < MaxClock
        /\ Tick(d)
        /\ notifOut' = NoNotifOut
        /\ UNCHANGED <<notifications, nonNotifVars>>

NotifCreate ==
    \E in \in StoreAnswers(Owners \X Events, {<<1, "push">>}) :
        LET user_id == in[1][1]
            event == in[1][2]
            dbOk == in[2]
            r == create_notification(notifications, user_id, "owner/repo1",
                                     event, None, <<1, 1, 1>>, now, dbOk)
        IN  /\ Len(notifications) < MaxDocs
            /\ notifications' = r.notifications
            /\ notifOut' = [NoNotifOut EXCEPT !.op = "create_notification",
                                              !.user_id = user_id,
                                              !.event_type = event,
                                              !.dbOk = dbOk,
                                              !.raised = r.raised,
                                              !.flag = r.stored]
            /\ UNCHANGED <<now, ticks, nonNotifVars>>

NotifList ==
    \E in \in StoreAnswers((Owners \X ListArgs) \cup {<<0, FirstListArgs>>},
                            {<<1, FirstListArgs>>}) :
        LET user_id == in[1][1]
            processed == in[1][2].processed
            limit == in[1][2].limit
            skip == in[1][2].skip
            dbOk == in[2]
            r == get_user_notifications(notifications, user_id, processed,
                                        limit, skip, dbOk)
        IN  \E l \in r.results :
                /\ notifOut' =
                      [NoNotifOut EXCEPT !.op = "get_user_notifications",
                                         !.user_id = user_id,
                                         !.processed = processed,
                                         !.limit = limit, !.skip = skip,
                                         !.dbOk = dbOk, !.raised = r.raised,
                                         !.list = l]
                /\ UNCHANGED <<now, ticks, notifications, nonNotifVars>>

NotifGet ==
    \E in \in StoreAnswers(NotificationIdArgs, {1}) :
        LET notification_id == in[1]
            dbOk == in[2]
            r == get_notification_by_id(notifications, notification_id, dbOk)
        IN  /\ notifOut' =
                  [NoNotifOut EXCEPT !.op = "get_notification_by_id",
                                     !.notification_id = notification_id,
                                     !.dbOk = dbOk, !.raised = r.raised,
                                     !.flag = r.notification # 0]
            /\ UNCHANGED <<now, ticks, notifications, nonNotifVars>>

NotifMark ==
    \E in \in StoreAnswers(NotificationIdArgs, {1}) :
        LET notification_id == in[1]
            dbOk == in[2]
            r == mark_as_processed(notifications, notification_id, now, dbOk)
        IN  /\ notifications' = r.notifications
            /\ notifOut' =
                  [NoNotifOut EXCEPT !.op = "mark_as_processed",
                                     !.notification_id = notification_id,
                                     !.dbOk = dbOk, !.raised = r.raised,
                                     !.flag = r.result]
            /\ UNCHANGED <<now, ticks, nonNotifVars>>

NotifMarkAll ==
    \E in \in StoreAnswers(UserIdArgs, {1}) :
        LET user_id == in[1]
            dbOk == in[2]
            r == mark_all_as_processed(notifications, user_id, now, dbOk)
        IN  /\ notifications' = r.notifications
            /\ notifOut' =
                  [NoNotifOut EXCEPT !.op = "mark_all_as_processed",
                                     !.user_id = user_id,
                                     !.dbOk = dbOk, !.raised = r.raised,
                                     !.count = r.count]
            /\ UNCHANGED <<now, ticks, nonNotifVars>>

NotifCount ==
    \E in \in StoreAnswers(UserIdArgs \X ProcessedArgs, {<<1, <<>>>>}) :
        LET user_id == in[1][1]
            processed == in[1][2]
            dbOk == in[2]
            r == count_user_notifications(notifications, user_id, processed,
                                          dbOk)
        IN  /\ notifOut' =
                  [NoNotifOut EXCEPT !.op = "count_user_notifications",
                                     !.user_id = user_id,
                                     !.processed = processed,
                                     !.dbOk = dbOk, !.raised = r.raised,
                                     !.count = r.count]
            /\ UNCHANGED <<now, ticks, notifications, nonNotifVars>>

NotifDelete ==
    \E in \in StoreAnswers(NotificationIdArgs, {1}) :
        LET notification_id == in[1]
            dbOk == in[2]
            r == delete_notification(notifications, notification_id, dbOk)
        IN  /\ notifications' = r.notifications
            /\ notifOut' =
                  [NoNotifOut EXCEPT !.op = "delete_notification",
                                     !.notification_id = notification_id,
                                     !.dbOk = dbOk, !.raised = r.raised,
                                     !.flag = r.result]
            /\ UNCHANGED <<now, ticks, nonNotifVars>>

\* the routes: current_user is a user the guard let through, and the
\* framework lets through a limit from 1 to 100
NotifRouteList ==
    \E current_user \in Owners, processed \in ProcessedArgs,
       limit \in {1, 100}, dbOk \in BOOLEAN :
        \E r \in get_notifications(notifications, current_user, processed,
                                   limit, dbOk) :
            /\ notifOut' =
                  [NoNotifOut EXCEPT !.op = "get_notifications",
                                     !.user_id = current_user,
                                     !.processed = processed,
                                     !.limit = limit, !.dbOk = dbOk,
                                     !.status = r.status,
                                     !.detail = r.detail, !.list = r.list]
            /\ UNCHANGED <<now, ticks, notifications, nonNotifVars>>

NotifRouteMark ==
    \E current_user \in Owners, notification_id \in NotificationIdArgs,
       dbOk \in BOOLEAN :
        LET r == mark_notification_processed(notifications, notification_id,
                                             current_user, now, dbOk)
        IN  /\ notifications' = r.notifications
            /\ notifOut' =
                  [NoNotifOut EXCEPT !.op = "mark_notification_processed",
                                     !.user_id = current_user,
                                     !.notification_id = notification_id,
                                     !.dbOk = dbOk, !.status = r.status,
                                     !.detail = r.detail]
            /\ UNCHANGED <<now, ticks, nonNotifVars>>

NotifRouteMarkAll ==
    \E current_user \in Owners, dbOk \in BOOLEAN :
        LET r == mark_all_notifications_processed(notifications, current_user,
                                                  now, dbOk)
        IN  /\ notifications' = r.notifications
            /\ notifOut' =
                  [NoNotifOut EXCEPT !.op = "mark_all_notifications_processed",
                                     !.user_id = current_user,
                                     !.dbOk = dbOk, !.status = r.status,
                                     !.detail = r.detail]
            /\ UNCHANGED <<now, ticks, nonNotifVars>>

NextNotif ==
    NotifTick \/ NotifCreate \/ NotifList \/ NotifMark \/ NotifMarkAll

SpecNotif == InitNotif /\ [][NextNotif]_vars

(***************************************************************************)
(* The specification of everything that touches the collection: the        *)
(* operations above, the other operations of WebhookService, and the       *)
(* notification routes.                                                     *)
(***************************************************************************)
NextNotifApi ==
    \/ NotifTick \/ NotifCreate \/ NotifList \/ NotifMark \/ NotifMarkAll
    \/ NotifGet \/ NotifCount \/ NotifDelete
    \/ NotifRouteList \/ NotifRouteMark \/ NotifRouteMarkAll

SpecNotifApi == InitNotif /\ [][NextNotifApi]_vars

(***************************************************************************)
(* The specification of the two services over a store that answers or      *)
(* fails: every operation of UserService and of WebhookService is called   *)
(* with well-formed and with malformed arguments.                           *)
(***************************************************************************)
StoreProfiles ==
    {Profile(TRUE, 1, "alice", None), Profile(FALSE, 0, "alice", None)}

nonStoreVars == <<now, ticks, authVars, mgrVars, tokenVars, guardVars,
                  sigVars, userVars, whResp>>

StoreUpsert ==
    \E github_user \in StoreProfiles, dbOk \in BOOLEAN :
        LET r == create_or_update_user(users, github_user, "gho_token",
                                       NoTime, now, dbOk)
        IN  /\ users' = r.users
            /\ notifOut' = [NoNotifOut EXCEPT !.op = "create_or_update_user",
                                              !.github_user = github_user,
                                              !.dbOk = dbOk,
                                              !.raised = r.raised,
                                              !.flag = r.user # 0]
            /\ UNCHANGED <<notifications, nonStoreVars>>

StoreGetById ==
    \E user_id \in UserIdArgs, dbOk \in BOOLEAN :
        LET r == get_user_by_id(users, user_id, dbOk)
        IN  /\ notifOut' = [NoNotifOut EXCEPT !.op = "get_user_by_id",
                                              !.user_id = user_id,
                                              !.dbOk = dbOk,
                                              !.raised = r.raised,
                                              !.flag = r.user # 0]
            /\ UNCHANGED <<users, notifications, nonStoreVars>>

StoreGetByGithubId ==
    \E github_id \in {1}, dbOk \in BOOLEAN :
        /\ notifOut' = [NoNotifOut EXCEPT
                           !.op = "get_user_by_github_id", !.dbOk = dbOk,
                           !.flag = get_user_by_github_id(users, github_id,
                                                          dbOk) # 0]
        /\ UNCHANGED <<users, notifications, nonStoreVars>>

StoreGetByUsername ==
    \E username \in {"alice", None}, dbOk \in BOOLEAN :
        /\ notifOut' = [NoNotifOut EXCEPT
                           !.op = "get_user_by_username", !.dbOk = dbOk,
                           !.flag = get_user_by_username(users, username,
                                                         dbOk) # 0]
        /\ UNCHANGED <<users, notifications, nonStoreVars>>

StoreWebhookStatus ==
    \E user_id \in UserIdArgs, configured \in BOOLEAN, dbOk \in BOOLEAN :
        LET r == update_webhook_status(users, user_id, configured, now, dbOk)
        IN  /\ users' = r.users
            /\ notifOut' = [NoNotifOut EXCEPT !.op = "update_webhook_status",
                                              !.user_id = user_id,
                                              !.dbOk = dbOk,
                                              !.raised = r.raised,
                                              !.flag = r.result]
            /\ UNCHANGED <<notifications, nonStoreVars>>

StoreVerifyTokens ==
    \E user_id \in UserIdArgs, up \in {"valid"}, dbOk \in BOOLEAN :
        LET r == verify_user_tokens(users, user_id, now, dbOk, up)
        IN  /\ notifOut' = [NoNotifOut EXCEPT !.op = "verify_user_tokens",
                                              !.user_id = user_id,
                                              !.dbOk = dbOk,
                                              !.raised = r.raised,
                                              !.flag = r.result]
            /\ UNCHANGED <<users, notifications, nonStoreVars>>

NextStore ==
    \/ StoreUpsert \/ StoreGetById \/ StoreGetByGithubId
    \/ StoreGetByUsername \/ StoreWebhookStatus \/ StoreVerifyTokens
    \/ NotifCreate \/ NotifList \/ NotifGet \/ NotifMark \/ NotifMarkAll
    \/ NotifCount \/ NotifDelete

SpecStore == InitNotif /\ [][NextStore]_vars

(***************************************************************************)
(* Properties of OAuthStateManager.                                         *)
(***************************************************************************)

\* C2 (as stated): once the concurrent verify_and_consume_state calls on a
\* state that was created once have all returned, exactly one of them has
\* returned True.
C2_ExactlyOneReturnsTrue ==
    \A s \in MgrStates :
        (/\ mgrStored[s] = 1
         /\ mgrOverlap[s]
         /\ mgrVerified[s] >= 2
         /\ \A c \in Callers : mgrCall[c] = Idle)
            => mgrTrue[s] = 1

\* C2 (amended): for any interleaving of concurrent verify_and_consume_state
\* calls, a call returns True exactly when its delete reaches the store
\* without error while the state is stored, younger than its lifetime and not
\* yet deleted by an earlier call; so no more calls return True than creates
\* stored the state, and never two for one create.
C2_AtMostOneReturnsTrue ==
    /\ \A s \in MgrStates : mgrTrue[s] <= mgrStored[s]
    /\ \A c \in Callers :
          mgrCall[c].op = "verify" =>
              (verify_and_consume_state_result(mgrCall[c])
                  <=> (~mgrCall[c].error /\ mgrCall[c].live))

\* two verifies of a stored state were in flight at once, both have returned,
\* and one of them returned True
C2_Witness ==
    \E s \in MgrStates :
        /\ mgrStored[s] = 1
        /\ mgrOverlap[s]
        /\ mgrVerified[s] >= 2
        /\ \A c \in Callers : mgrCall[c] = Idle
        /\ mgrTrue[s] = 1

(***************************************************************************)
(* Properties of verify_token and of the session guard.                     *)
(***************************************************************************)

\* C3: verify_token returns the claims, with the subject the token was made
\* for, only if the token is validly signed, its expiry has not passed at
\* the time of the call and its type equals the expected type; in every other
\* case it fails with 401; a token of create_access_token is never accepted
\* as "refresh" and a token of create_refresh_token never as "access".
C3_VerifyToken ==
    tokOut.called =>
        LET returned == tokOut.verdict.outcome = "returned"
        IN  /\ returned =>
                  /\ tokHeld.jwt /\ tokHeld.key = "jwt_secret_key"
                  /\ tokHeld.exp >= tokOut.at
                  /\ tokHeld.type = tokOut.expected
                  /\ tokOut.verdict.sub = tokOrigin.sub
            /\ ~returned =>
                  /\ tokOut.verdict.outcome = "HTTPException"
                  /\ tokOut.verdict.status = 401
            /\ (tokOrigin.by \in TokenTypes /\ tokOrigin.by # tokOut.expected)
                  => ~returned

\* C4: get_current_user hands over a user only if the token verified as
\* "access", a record exists for its subject and verify_user_tokens returned
\* true; the first step that fails ends the request with 401, and no later
\* step (the lookup, the upstream validity call) runs.
C4_GuardOrder ==
    guardOut.called =>
        LET r == guardOut.result
            handed == r.status = 200 /\ r.user # 0
        IN  /\ handed => (guardOut.verified /\ guardOut.found
                              /\ guardOut.tokensValid)
            /\ ~handed => r.status = 401
            /\ r.steps = SubSeq(GuardSteps, 1, Len(r.steps))
            /\ ~guardOut.verified => (Len(r.steps) = 1 /\ ~r.upstream)
            /\ (guardOut.verified /\ ~guardOut.found)
                  => (Len(r.steps) <= 2 /\ ~r.upstream)

(***************************************************************************)
(* Properties of the webhook signature and of POST /webhooks/github.        *)
(***************************************************************************)

\* C5: the inbound webhook stores a notification only if the header is the
\* signature of the body as it arrived and a user's username is the
\* payload's repository owner, and it stores it for a user of that name; a
\* delivery whose signature fails is answered 401 after that one step, with
\* no parsing and no store access; one whose owner is unknown is answered
\* 200 "ignored" and nothing is stored.
C5_WebhookGate ==
    whResp.called =>
        /\ whResp.stored =>
              /\ whResp.signed
              /\ whResp.ownerKnown
              /\ whResp.storedFor = whResp.owner
        /\ ~whResp.signed =>
              /\ whResp.status = 401
              /\ whResp.steps = <<"verify_github_signature">>
              /\ ~whResp.stored
        /\ (whResp.signed /\ whResp.owner # None /\ ~whResp.ownerKnown) =>
              /\ whResp.status = 200
              /\ whResp.message = "User not found, webhook ignored"
              /\ ~whResp.stored

\* a signed delivery for a known owner was stored
C5_Witness ==
    /\ whResp.called /\ whResp.stored /\ whResp.signed
    /\ Len(notifications) > 0

\* C6: verify_github_signature returns true exactly when the header is
\* "sha256=" followed by the hex HMAC-SHA256 of the body under the
\* configured secret and nothing fails inside; for an absent or empty
\* header, one without "=", another algorithm, a body or digest that
\* differs anywhere, or an internal error it returns false; it never raises.
C6_SignatureExact ==
    sigOut.called =>
        /\ ~sigOut.raised
        /\ sigOut.result <=>
              (/\ sigOut.header =
                      Header(SignatureOf(github_webhook_secret, sigOut.body))
               /\ ~sigOut.fault)

\* the right header on a body of full length was accepted
C6_Witness ==
    /\ sigOut.called /\ sigOut.result
    /\ Len(sigOut.body) = MaxBody

(***************************************************************************)
(* Properties of the /auth/github routes.                                   *)
(***************************************************************************)

\* C1 (as it reads for the state check of GET /auth/github/callback): a
\* verify-and-consume of a state succeeds exactly when a login created the
\* state, fewer than 600 seconds have elapsed since, and no earlier
\* verify-and-consume succeeded on it: the first one after the create is
\* accepted, and a never-created, expired or already consumed state is refused.
C1_VerifyAndConsumeOnce ==
    authResp.kind = "callback" =>
        (authResp.passed <=>
            /\ authResp.created
            /\ authResp.age < OAUTH_STATE_TTL
            /\ ~authResp.priorConsumed)

\* C7: a state that a login created on one server process and that is still
\* within its lifetime and unconsumed is accepted by a callback handled on any
\* other process.
C7_AcceptedOnAnyInstance ==
    ( /\ authResp.kind = "callback"
      /\ authResp.created
      /\ ~authResp.sameProcess
      /\ authResp.age < OAUTH_STATE_TTL
      /\ ~authResp.priorConsumed )
    => (authResp.passed /\ authResp.status # 400)

\* C8: the login flow keeps no state in an in-process map, and a login that
\* runs while the backing store cannot persist the state answers 500 and hands
\* out no state.
C8_NoInProcessStateMap ==
    /\ \A i \in Instances : oauth_states[i] = EmptyStates
    /\ (authResp.kind = "login" /\ ~authResp.storeUp)
          => (authResp.status = 500 /\ ~authResp.handed)

\* C9: a state that a callback has consumed is in no state map again, whatever
\* happened to that callback afterwards, and every later callback that carries
\* it is refused with 400.
C9_ConsumedStateStaysConsumed ==
    /\ \A i \in Instances, s \in StateTokens :
          stateConsumed[s] => oauth_states[i][s] = NoTime
    /\ (authResp.kind = "callback" /\ authResp.priorConsumed)
          => (authResp.status = 400 /\ ~authResp.passed)

\* a callback is refused for a state whose consuming callback had failed
C9_Witness ==
    /\ authResp.kind = "callback"
    /\ authResp.priorConsumed
    /\ authResp.priorFailed
    /\ authResp.status = 400

\* C10: a callback that carries a state a login created and a code the
\* provider accepts, for an upstream id not seen before, creates exactly one
\* user record with webhook_configured = false and answers 200 with an access
\* and a refresh token for that user, token_type "bearer" and expires_in =
\* the access-token lifetime in minutes times 60.
C10_CallbackIssuesTokens ==
    ( /\ authResp.kind = "callback"
      /\ authResp.passed
      /\ authResp.upstreamOk )
    => /\ authResp.status = 200
       /\ authResp.issued
       /\ authResp.user \in 1..Len(users)
       /\ (authResp.user > authResp.usersBefore
             => /\ Len(users) = authResp.usersBefore + 1
                /\ users[authResp.user].webhook_configured = FALSE)
       /\ authResp.access_token.sub = authResp.user
       /\ authResp.access_token.type = "access"
       /\ authResp.refresh_token.sub = authResp.user
       /\ authResp.refresh_token.type = "refresh"
       /\ authResp.token_type = "bearer"
       /\ authResp.expires_in = jwt_access_token_expire_minutes * 60

(***************************************************************************)
(* C11: GET /auth/github/callback answers 400 when the state is invalid or *)
(* expired, 401 when the provider rejects the code exchange (an error      *)
(* answer, or an answer without access_token), 500 for any other failure   *)
(* that is no timeout, and it returns session tokens only when every step  *)
(* succeeded.                                                               *)
(***************************************************************************)
C11_CallbackStatuses ==
    authResp.kind = "callback" =>
        LET stateBad == \/ ~authResp.created
                        \/ authResp.age > OAUTH_STATE_EXPIRY_MINUTES * 60
                        \/ authResp.priorConsumed
            rejected == authResp.exchange \in {"error", "no_access_token"}
            exchanged == authResp.exchange \in {"token", "token_expires_in"}
        IN  /\ stateBad => authResp.status = 400
            /\ (authResp.passed /\ rejected) => authResp.status = 401
            /\ (authResp.passed /\ exchanged /\ ~authResp.upstreamOk
                    /\ authResp.profile # "timeout") => authResp.status = 500
            /\ authResp.issued => (authResp.passed /\ authResp.upstreamOk)

(***************************************************************************)
(* C12: POST /auth/refresh issues a new access token, for the subject of   *)
(* the presented token, only if that token verifies as type "refresh" and  *)
(* verify_user_tokens returns true for its subject; whenever the session   *)
(* is invalid (the token is invalid, expired or of type access, the user   *)
(* is missing, or the upstream token is no longer valid) it answers 401    *)
(* and issues no token.                                                     *)
(***************************************************************************)
C12_RefreshOnlyValidSession ==
    refreshOut.called =>
        LET r == refreshOut.result
            issued == r.access_token # NoToken
            tokenGood == /\ tokHeld.jwt
                         /\ tokHeld.key = "jwt_secret_key"
                         /\ AllClaims \subseteq tokHeld.claims
                         /\ tokHeld.exp >= now
                         /\ tokHeld.type = "refresh"
            userFound == tokHeld.sub \in 1..Len(users)
            expiryPassed ==
                /\ userFound
                /\ users[tokHeld.sub].github_token_expires_at # NoTime
                /\ now > users[tokHeld.sub].github_token_expires_at
        IN  /\ issued =>
                /\ r.status = 200
                /\ tokenGood
                /\ verify_user_tokens(users, tokHeld.sub, now,
                                      refreshOut.dbOk, refreshOut.up).result
                /\ userFound /\ ~expiryPassed /\ refreshOut.up = "valid"
                /\ r.access_token.sub = tokHeld.sub
                /\ r.access_token.type = "access"
            /\ (~tokenGood \/ ~userFound \/ expiryPassed
                    \/ refreshOut.up = "invalid") =>
                (r.status = 401 /\ ~issued)

(***************************************************************************)
(* C13: a create_or_update_user call for an upstream id that has a record  *)
(* leaves exactly one record for that id: it overwrites the profile        *)
(* fields, the upstream token, its expiry and updated-at in place, and     *)
(* leaves the record's internal id, created-at and webhook-configured flag *)
(* (and every other record) unchanged.                                      *)
(***************************************************************************)
C13_UpsertInPlace ==
    LET id == upsertOut.github_user.id
        existing == find_one_github_id(upsertOut.before, id)
    IN  (/\ upsertOut.called = "create_or_update_user"
         /\ upsertOut.user # 0
         /\ existing # 0) =>
            /\ Cardinality({k \in 1..Len(users) : users[k].github_id = id}) = 1
            /\ Len(users) = Len(upsertOut.before)
            /\ upsertOut.user = existing
            /\ users[existing] =
                  [github_id |-> id,
                   username |-> upsertOut.github_user.login,
                   name |-> upsertOut.github_user.name,
                   github_access_token |-> upsertOut.github_token,
                   github_token_expires_at |-> upsertOut.token_expires_at,
                   webhook_configured |->
                       upsertOut.before[existing].webhook_configured,
                   created_at |-> upsertOut.before[existing].created_at,
                   updated_at |-> upsertOut.at]
            /\ \A k \in 1..Len(users) :
                  k # existing => users[k] = upsertOut.before[k]

\* the second call met a record with another login, name, token and expiry,
\* made earlier and with the webhook flag set
C13_Witness ==
    LET id == upsertOut.github_user.id
        existing == find_one_github_id(upsertOut.before, id)
    IN  /\ upsertOut.called = "create_or_update_user"
        /\ upsertOut.user # 0
        /\ existing # 0
        /\ upsertOut.before[existing].username # upsertOut.github_user.login
        /\ upsertOut.before[existing].name # upsertOut.github_user.name
        /\ upsertOut.before[existing].github_access_token
               # upsertOut.github_token
        /\ upsertOut.before[existing].github_token_expires_at
               # upsertOut.token_expires_at
        /\ upsertOut.before[existing].webhook_configured
        /\ upsertOut.before[existing].created_at < upsertOut.at

(***************************************************************************)
(* C14: in every reachable state, also after any interleaving of           *)
(* concurrent create_or_update_user calls for one upstream id, at most one *)
(* user record has a given upstream id.                                     *)
(***************************************************************************)
C14_UpstreamIdUnique ==
    \A i, j \in 1..Len(users) :
        users[i].github_id = users[j].github_id => i = j

(***************************************************************************)
(* C15: in every reachable state no two user records share a username, so  *)
(* the webhook's lookup of the owner login matches at most one user.       *)
(***************************************************************************)
C15_UsernameUnique ==
    \A login \in Logins :
        Cardinality({k \in 1..Len(users) : users[k].username = login}) <= 1

(***************************************************************************)
(* C16: verify_user_tokens returns false without calling the upstream API  *)
(* whenever the user's stored upstream-token expiry is set and in the      *)
(* past; the upstream call is made only when the expiry is unset or not    *)
(* yet passed.                                                              *)
(***************************************************************************)
C16_ExpiredSkipsUpstream ==
    tokensOut.called =>
        LET id == tokensOut.user_id
            known == id \in 1..Len(users)
            r == tokensOut.result
        IN  /\ (/\ known
                 /\ users[id].github_token_expires_at # NoTime
                 /\ now > users[id].github_token_expires_at) =>
                    (~r.result /\ ~r.upstream /\ r.raised = None)
            /\ r.upstream =>
                    /\ known
                    /\ \/ users[id].github_token_expires_at = NoTime
                       \/ now <= users[id].github_token_expires_at

\* the expiry has passed, the upstream API would have called the token
\* valid, and the call returned false without asking
C16_Witness ==
    /\ tokensOut.called
    /\ tokensOut.user_id \in 1..Len(users)
    /\ users[tokensOut.user_id].github_token_expires_at # NoTime
    /\ now > users[tokensOut.user_id].github_token_expires_at
    /\ tz_aware /\ tokensOut.dbOk /\ tokensOut.up = "valid"
    /\ ~tokensOut.result.result
    /\ ~tokensOut.result.upstream

(***************************************************************************)
(* C17: for a well-formed internal id verify_user_tokens never raises; it  *)
(* returns false when the user is absent, when the store lookup fails,     *)
(* and when the upstream validity call errors or times out, and it returns *)
(* true only when the upstream call reports the stored token as valid.     *)
(***************************************************************************)
C17_TokensFalseNeverRaise ==
    (tokensOut.called /\ ObjectIdValid(tokensOut.user_id)) =>
        LET known == tokensOut.user_id \in 1..Len(users)
            r == tokensOut.result
        IN  /\ r.raised = None
            /\ (\/ ~known
                 \/ ~tokensOut.dbOk
                 \/ tokensOut.up \in {"error", "timeout"}) => ~r.result
            /\ r.result =>
                    (/\ known /\ tokensOut.dbOk
                     /\ r.upstream /\ tokensOut.up = "valid")

\* the upstream call was made for a stored user and timed out
C17_Witness ==
    /\ tokensOut.called
    /\ tokensOut.user_id \in 1..Len(users)
    /\ tokensOut.dbOk
    /\ tokensOut.up = "timeout"
    /\ tokensOut.result.upstream
    /\ tokensOut.result = [raised |-> None, result |-> FALSE,
                            upstream |-> TRUE]

(***************************************************************************)
(* C18: a timeout of an outbound call to the upstream API reaches the      *)
(* caller as a gateway timeout (504), never as another kind of error such  *)
(* as 401: a guarded request whose token validity check timed out is       *)
(* answered with 504.                                                       *)
(***************************************************************************)
C18_TimeoutIsGatewayTimeout ==
    (/\ guardOut.called
     /\ guardOut.result.upstream
     /\ guardOut.up = "timeout") => guardOut.result.status = 504

(***************************************************************************)
(* C19: the guard writes the user's internal id into request.state.user_id *)
(* only after every guard check has succeeded; a request the guard rejects *)
(* leaves it unset, so that the rate limiter keys the request by IP        *)
(* address and not by a user id.                                            *)
(***************************************************************************)
C19_IdentityOnlyOnSuccess ==
    guardOut.called =>
        LET r == guardOut.result
        IN  /\ r.status = 200 =>
                (r.state_set /\ r.state_user_id = r.user
                    /\ get_user_identifier(r.state_set) = "user")
            /\ r.status # 200 =>
                (~r.state_set /\ get_user_identifier(r.state_set) = "ip")

(***************************************************************************)
(* C20: get_optional_user never propagates an error: on any failure of the *)
(* guard pipeline (no bearer token, a token that is invalid, expired or of *)
(* the wrong type, no such user, an upstream token no longer valid, a      *)
(* store or upstream error) it returns None, and it returns a user only    *)
(* when get_current_user would have succeeded.                              *)
(***************************************************************************)
C20_OptionalNeverRaises ==
    optOut.called =>
        LET r == optOut.result
            g == routes_get_current_user(tokHeld, users, now, optOut.db1,
                                         optOut.db2, optOut.up)
        IN  /\ ~r.raised
            /\ r.user # 0 =>
                (optOut.bearer /\ g.status = 200 /\ r.user = g.user)
            /\ (~optOut.bearer \/ g.status # 200) => r.user = 0

(***************************************************************************)
(* Properties of the notification operations and routes.                   *)
(***************************************************************************)
\* C21: a request of the list, mark-processed or mark-all-processed route
\* made as current_user returns only notifications current_user owns and
\* leaves the processed flag and processed_at of every notification of
\* another user as they were.
C21_UserScoped ==
    [][notifOut'.op \in {"get_notifications", "mark_notification_processed",
                         "mark_all_notifications_processed"} =>
          /\ \A i \in 1..Len(notifOut'.list) :
                 notifications'[notifOut'.list[i]].user_id = notifOut'.user_id
          /\ \A k \in Live(notifications) :
                 notifications[k].user_id # notifOut'.user_id =>
                     /\ notifications'[k].processed = notifications[k].processed
                     /\ notifications'[k].processed_at =
                            notifications[k].processed_at]_vars

\* C22: every 401 of the guard carries the one generic message, whichever
\* sub-check of verify_token or of get_current_user failed.
C22_GenericUnauthorized ==
    (guardOut.called /\ guardOut.variant = "routes"
        /\ guardOut.result.status = 401)
    => guardOut.result.detail = "Could not validate credentials"

\* C23: mark_as_processed with a well-formed id returns False, and raises
\* nothing, when no notification has the id and when the notification is
\* already processed; it returns True for an unprocessed notification, which
\* is processed afterwards.
C23_MarkAsProcessed ==
    [][(notifOut'.op = "mark_as_processed" /\ notifOut'.dbOk
            /\ ObjectIdValid(notifOut'.notification_id)) =>
          LET id == notifOut'.notification_id
          IN  /\ notifOut'.raised = None
              /\ notifOut'.flag =
                     (id \in Live(notifications) /\ ~notifications[id].processed)
              /\ notifOut'.flag => notifications'[id].processed]_vars

\* C24: update_webhook_status returns True only when the call changed the
\* stored webhook_configured flag; for an id no record has and for a record
\* whose flag already has the value it returns False.
C24_WebhookStatusChanged ==
    [][(upsertOut'.called = "update_webhook_status" /\ upsertOut'.user # 0) =>
          users'[upsertOut'.user].webhook_configured
              # users[upsertOut'.user].webhook_configured]_vars

\* C25: mark_all_as_processed(owner) marks exactly the owner's notifications
\* that were unprocessed when it ran (none when the store fails), returns how
\* many it changed, so that a second call right after returns 0, and leaves
\* every other notification, with its processed_at, as it was.
C25_MarkAllFrame ==
    [][notifOut'.op = "mark_all_as_processed" =>
          LET owner == notifOut'.user_id
              unprocessed == {k \in Live(notifications) :
                                 /\ notifications[k].user_id = owner
                                 /\ ~notifications[k].processed}
              changed == {k \in 1..Len(notifications) :
                             notifications'[k] # notifications[k]}
          IN  /\ Len(notifications') = Len(notifications)
              /\ changed = IF notifOut'.dbOk /\ notifOut'.raised = None
                           THEN unprocessed ELSE {}
              /\ \A k \in changed :
                     notifications'[k] =
                         [notifications[k] EXCEPT !.processed = TRUE,
                                                  !.processed_at = now]
              /\ notifOut'.count = Cardinality(changed)
              /\ (notifOut.op = "mark_all_as_processed" /\ notifOut.dbOk
                     /\ notifOut.user_id = owner) => notifOut'.count = 0]_vars

\* a notification of the owner was marked while another of the owner's,
\* marked earlier, was in the collection
C25_Witness ==
    /\ notifOut.op = "mark_all_as_processed"
    /\ notifOut.count >= 1
    /\ \E k \in Live(notifications) :
           /\ notifications[k].user_id = notifOut.user_id
           /\ notifications[k].processed
           /\ notifications[k].processed_at < now

\* C26: no operation removes a notification or changes its owner,
\* repository, event_type, action, payload or created_at; processed and
\* processed_at change only in the mark-processed operations.
C26_NotificationsKept ==
    [][\A k \in Live(notifications) :
          /\ k \in Live(notifications')
          /\ notifications'[k].user_id = notifications[k].user_id
          /\ notifications'[k].repository = notifications[k].repository
          /\ notifications'[k].event_type = notifications[k].event_type
          /\ notifications'[k].action = notifications[k].action
          /\ notifications'[k].payload = notifications[k].payload
          /\ notifications'[k].created_at = notifications[k].created_at
          /\ notifications'[k] # notifications[k] =>
                 notifOut'.op \in
                     {"mark_as_processed", "mark_all_as_processed",
                      "mark_notification_processed",
                      "mark_all_notifications_processed"}]_vars

C28_StoreFailureNeutral ==
    [][notifOut'.op # "" =>
          LET out == notifOut'
              invalid ==
                  CASE out.op \in {"get_user_by_id", "update_webhook_status",
                                   "verify_user_tokens",
                                   "get_user_notifications",
                                   "mark_all_as_processed",
                                   "count_user_notifications"} ->
                           ~ObjectIdValid(out.user_id)
                    [] out.op \in {"get_notification_by_id",
                                   "mark_as_processed",
                                   "delete_notification"} ->
                           ~ObjectIdValid(out.notification_id)
                    [] out.op = "create_notification" -> out.event_type = ""
                    [] out.op = "create_or_update_user" ->
                           ~out.github_user.has_id
                    [] OTHER -> FALSE
          IN  /\ out.raised \in {None, "ValueError"}
              /\ (out.raised = "ValueError") = invalid
              /\ ~out.dbOk /\ ~invalid =>
                     /\ ~out.flag /\ out.count = 0 /\ out.list = <<>>
                     /\ users' = users
                     /\ notifications' = notifications]_vars

\* the store failed in a get_user_by_id for the id of a stored user while
\* the collections held a user and a notification
C28_Witness ==
    /\ notifOut.op = "get_user_by_id"
    /\ ~notifOut.dbOk
    /\ notifOut.raised = None
    /\ notifOut.user_id \in 1..Len(users)
    /\ Live(notifications) # {}

\* C29: the mark-processed route answers 404 whenever no notification has
\* the id, be the id well-formed or not, and answers 200 "Notification
\* marked as processed" only when a notification was found and marked.
C29_MarkProcessedStatus ==
    [][notifOut'.op = "mark_notification_processed" =>
          LET id == notifOut'.notification_id
          IN  /\ id \notin Live(notifications) => notifOut'.status = 404
              /\ notifOut'.status = 200 =>
                     /\ notifOut'.detail = "Notification marked as processed"
                     /\ id \in Live(notifications)
                     /\ notifications'[id].processed]_vars

\* C30: when POST /webhooks/github answers "Webhook received successfully"
\* the notification is in the collection, for the owner the payload names;
\* when create_notification fails the route does not answer so.
C30_SuccessMeansStored ==
    (whResp.called /\ whResp.message = "Webhook received successfully") =>
        /\ whResp.stored
        /\ whResp.storedFor = whResp.owner
        /\ \E k \in Live(notifications) :
               users[notifications[k].user_id].username = whResp.owner

====
